---------------------------- MODULE Spec2Model ----------------------------
(***************************************************************************)
(* A model of the overnotion command-line client: the resilient invoker    *)
(* (src/lib/errors.ts), the pagination drain (src/lib/client.ts,           *)
(* src/commands/block.ts), the batched mutator (src/lib/blocks.ts), the   *)
(* block-tree replicator (src/lib/client.ts), the depth-bounded fetch      *)
(* (src/commands/page.ts) and the streaming listings (src/commands).       *)
(*                                                                         *)
(* Times are integers in milliseconds.  A JavaScript number that may be    *)
(* NaN or infinite is a record [fin, v]; `undefined` is the record Undef.  *)
(***************************************************************************)
EXTENDS Integers, Sequences, FiniteSets, TLC

VARIABLES
    \* ---- withNotionRetry (errors.ts) --------------------------------
    rPc,          \* "idle" | "attempt" | "waiting" | "returned" | "threw"
    rOptions,     \* the options argument of the call (a partial policy)
    retryCount,   \* the local retryCount of withNotionRetry
    rLog,         \* history: the calls of fn and the waits, in order
    rFailures,    \* history: the errors fn threw, in order
    rThrown,      \* what the caller receives when the call fails
    rFn,          \* the operation: the failures it can throw
    \* ---- getRetryAfterMs / computeDelayMs as pure functions -----------
    dPc,          \* "idle" | "input" | "hinted" | "delayed"
    dError,       \* the failure handed to getRetryAfterMs
    dRetryCount,  \* the retryCount handed to computeDelayMs
    dOptions,     \* the policy handed to computeDelayMs
    dHint,        \* the result of getRetryAfterMs
    dDelay,       \* the result of computeDelayMs
    \* ---- listAllBlockChildren / fetchAllBlockChildren -------------------
    lPc,          \* "idle" | "request" | "done" | "failed"
    lFn,          \* which of the two drains runs
    lItems,       \* the remote listing: the children of the block, in order
    lPageSize,    \* how many items the remote puts in one page
    lCursor,      \* the local cursor (0: undefined)
    lBlocks,      \* the local blocks array
    lRequests,    \* history: the start_cursor of every listing call
    \* ---- appendBlockChildrenInBatches (blocks.ts) ------------------------
    bPc,          \* "idle" | "start" | "outstanding" | "waiting" | "done" | "failed"
    bChildren,    \* the children argument
    batchSize,    \* the batchSize argument
    delayMs,      \* the delayMs argument
    bI,           \* the loop variable i
    bResponses,   \* the local responses array
    bInFlight,    \* the append calls issued and not yet answered
    bLog,         \* history: calls issued, responses and waits, in order
    bRemote,      \* the children of blockId at the remote
    \* ---- copyBlockTree and its helpers (client.ts) ----------------------
    cPc,          \* "idle" | "running" | "done" | "failed"
    cSource,      \* the source page: its block tree at the remote
    cStore,       \* the blocks created at the remote; 1 is the new page
    cStack,       \* the frames of the running async functions, innermost last
    cInflight,    \* the remote calls issued and not yet answered
    cCalls,       \* history: every remote call, in the order of issue
    cCopies,      \* history: every copyBlockTree(source, target) invocation
    cFailure,     \* history: the calls that failed after the invoker's retries
    \* ---- fetchAllBlocks (commands/page.ts) ------------------------------
    fPc,          \* "idle" | "running" | "done" | "failed"
    fTree,        \* the page whose blocks are fetched
    fDepth,       \* the depth given to the outermost call
    fStack,       \* the frames of the running fetchAllBlocks calls
    fResult,      \* the blocks the outermost call returned
    fCalls,       \* history: the block ids listed, in the order of the calls
    \* ---- streamBlockChildren, streamAllComments (commands) --------------
    sPc,          \* "idle" | "request" | "await" | "done" | "failed"
    sFn,          \* which of the two functions runs
    sItems,       \* the items at the remote, in listing order
    sPageSize,    \* the page size the remote answers with
    sCursor,      \* cursor (0: undefined)
    sPage,        \* response.results of the last answer
    sLog,         \* history: requests and emitted lines, in order
    \* ---- movePage (client.ts) -------------------------------------------
    mPc,          \* "idle" | "start" | "first" | "second" | "returned" | "threw"
    mKey,         \* the key getClient resolves ("": none)
    mAttempts,    \* history: the parent type of each attempt made, in order
    mErrors,      \* history: what each failed attempt threw, in order
    mThrown,      \* what movePage throws
    \* ---- getClient, resetClient (client.ts) -----------------------------
    clientInstance, \* the module's cached client (NoClient: null)
    gConstructed, \* how many clients have been constructed
    gLog          \* history: the calls and what each returned or threw

retryVars == <<rPc, rOptions, retryCount, rLog, rFailures, rThrown, rFn>>
delayVars == <<dPc, dError, dRetryCount, dOptions, dHint, dDelay>>

drainVars == <<lPc, lFn, lItems, lPageSize, lCursor, lBlocks, lRequests>>
batchVars == <<bPc, bChildren, batchSize, delayMs, bI, bResponses, bInFlight, bLog, bRemote>>

copyVars == <<cPc, cSource, cStore, cStack, cInflight, cCalls, cCopies, cFailure>>
fetchVars == <<fPc, fTree, fDepth, fStack, fResult, fCalls>>
streamVars == <<sPc, sFn, sItems, sPageSize, sCursor, sPage, sLog>>
moveVars == <<mPc, mKey, mAttempts, mErrors, mThrown>>
clientVars == <<clientInstance, gConstructed, gLog>>

vars == <<retryVars, delayVars, drainVars, batchVars, copyVars, fetchVars, streamVars, moveVars, clientVars>>

---------------------------------------------------------------------------
(* Bounds of the model.                                                    *)

\* Math.random() is drawn from {0, 1/R, ..., (R-1)/R} with R = RandomResolution.
RandomResolution == 4
\* The largest retryCount handed to computeDelayMs as a pure function.
MaxRetryCount == 6
\* The longest remote listing that is drained, and the largest remote page.
MaxItems == 5
MaxPageSize == 3
\* The longest children list and the largest batch size of the batched mutator.
MaxChildren == 7
MaxBatchSize == 4
\* The most children of a short source page.
MaxSiblings == 2
MaxDepth == 3
\* The most getClient and resetClient calls of a run.
MaxClientCalls == 5

---------------------------------------------------------------------------
(* JavaScript values.                                                      *)

Undef == [t |-> "undefined", fin |-> FALSE, v |-> 0]
Num(n) == [t |-> "number", fin |-> TRUE, v |-> n]
NaN == [t |-> "number", fin |-> FALSE, v |-> 0]
Str(n) == [t |-> "string", fin |-> TRUE, v |-> n]

Max(a, b) == IF a >= b THEN a ELSE b
Min(a, b) == IF a <= b THEN a ELSE b

RECURSIVE Pow2(_)
Pow2(n) == IF n <= 0 THEN 1 ELSE 2 * Pow2(n - 1)

\* Math.floor(Math.random() * (n + 1)) for Math.random() = k / RandomResolution
RandomFloor(k, n) == (k * (n + 1)) \div RandomResolution

RandomDraws == 0 .. (RandomResolution - 1)

---------------------------------------------------------------------------
(* Failures.  A failure is what the operation throws: whether it is an     *)
(* error of the Notion client library (isNotionClientError), its code, its *)
(* HTTP status (0: none), its response headers and its response body.      *)
(* A header value is a string; the model keeps, for each string it uses,   *)
(* what Number.parseFloat and Date.parse make of it.                       *)

HeaderStrings ==
    { "", "1", "0", "-2", "30", "1s", "Wed, 01 Jan 2025 00:00:05 GMT",
      "2025-01-01T00:00:05Z", "soon" }

\* Number.parseFloat: the longest numeric prefix, NaN when there is none
ParseFloat(s) ==
    CASE s = "1" -> Num(1)
      [] s = "0" -> Num(0)
      [] s = "-2" -> Num(-2)
      [] s = "30" -> Num(30)
      [] s = "1s" -> Num(1)
      [] s = "2025-01-01T00:00:05Z" -> Num(2025)
      [] OTHER -> NaN

\* Date.parse in ms, counted from 2025-01-01T00:00:00Z
DateParse(s) ==
    CASE s = "Wed, 01 Jan 2025 00:00:05 GMT" -> Num(5000)
      [] s = "2025-01-01T00:00:05Z" -> Num(5000)
      [] OTHER -> NaN

NoHeaders == [kind |-> "none", lower |-> "<undefined>", upper |-> "<undefined>"]
\* a Headers object: get('retry-after') finds the header whatever its case
HeadersObject(s) == [kind |-> "get", lower |-> s, upper |-> "<undefined>"]
\* a plain record with the keys 'retry-after' and 'Retry-After'
HeadersRecord(lo, up) == [kind |-> "record", lower |-> lo, upper |-> up]

NotionError(code, status, headers, retryAfter) ==
    [notion |-> TRUE, code |-> code, status |-> status, headers |-> headers,
     retry_after |-> retryAfter]

OtherError(code, status, headers, retryAfter) ==
    [notion |-> FALSE, code |-> code, status |-> status, headers |-> headers,
     retry_after |-> retryAfter]

---------------------------------------------------------------------------
(* errors.ts                                                               *)

ErrorMessageCodes ==
    { "unauthorized", "restricted_resource", "object_not_found", "rate_limited",
      "invalid_json", "validation_error", "conflict_error",
      "internal_server_error", "service_unavailable",
      "notionhq_client_request_timeout", "notionhq_client_response_error" }

errorMessages ==
    [c \in ErrorMessageCodes |->
        CASE c = "unauthorized" -> "Invalid API token. Run 'onotion auth login' to set a valid token."
          [] c = "restricted_resource" -> "This integration does not have access to the requested resource. Check your integration permissions in Notion."
          [] c = "object_not_found" -> "The requested page, database, or block was not found. Verify the ID is correct and the integration has access."
          [] c = "rate_limited" -> "Rate limited by Notion API. Please wait a moment and try again."
          [] c = "invalid_json" -> "Invalid request format."
          [] c = "validation_error" -> "Invalid request parameters."
          [] c = "conflict_error" -> "Conflict with current state. The resource may have been modified."
          [] c = "internal_server_error" -> "Notion API internal error. Please try again later."
          [] c = "service_unavailable" -> "Notion API is temporarily unavailable. Please try again later."
          [] c = "notionhq_client_request_timeout" -> "Request timed out. Check your internet connection."
          [] c = "notionhq_client_response_error" -> "Invalid response from Notion API."]

\* a message that is the generic one for every code
genericMessage(code) == [generic |-> TRUE, text |-> "Notion API error: ", code |-> code]

\* the message is the table's, or the generic one, which embeds the code
getUserFriendlyMessage(code) ==
    IF code \in DOMAIN errorMessages
        THEN [generic |-> FALSE, text |-> errorMessages[code], code |-> code]
        ELSE [generic |-> TRUE, text |-> "Notion API error: ", code |-> code]

DEFAULT_RETRY_OPTIONS ==
    [maxRetries |-> 4, baseDelayMs |-> 500, maxDelayMs |-> 10000,
     retryAfterJitterMs |-> 250]

RETRYABLE_API_CODES == { "rate_limited", "internal_server_error", "service_unavailable" }

RETRYABLE_CLIENT_CODES ==
    { "notionhq_client_request_timeout", "notionhq_client_response_error" }

isNotionClientError(error) == error.notion

\* a classifier that forgets the client (transport) codes
isRetryableWithoutClientCodes(error) ==
    IF ~error.notion THEN FALSE
    ELSE IF error.code \in RETRYABLE_API_CODES THEN TRUE
    ELSE IF error.status # 0 /\ (error.status = 429 \/ error.status >= 500) THEN TRUE
    ELSE FALSE

isRetryableNotionError(error) ==
    IF ~isNotionClientError(error) THEN FALSE
    ELSE IF error.code \in RETRYABLE_API_CODES THEN TRUE
    ELSE IF error.code \in RETRYABLE_CLIENT_CODES THEN TRUE
    ELSE IF error.status # 0 /\ (error.status = 429 \/ error.status >= 500) THEN TRUE
    ELSE FALSE

\* the headerValue that getRetryAfterMs reads ("<undefined>": none)
HeaderValue(headers) ==
    CASE headers.kind = "none" -> "<undefined>"
      [] headers.kind = "get" -> headers.lower
      [] OTHER ->
            \* record['retry-after'] || record['Retry-After']
            IF headers.lower \notin {"<undefined>", ""} THEN headers.lower
            ELSE headers.upper

\* a hint read in seconds and never converted to milliseconds
getRetryAfterSeconds(error, now) ==
    IF ~isNotionClientError(error) THEN Undef
    ELSE LET headerValue == HeaderValue(error.headers) IN
         IF headerValue \in {"<undefined>", ""}
            THEN IF error.retry_after.t = "number" /\ error.retry_after.fin
                    THEN Num(Max(0, error.retry_after.v))
                    ELSE Undef
         ELSE LET seconds == ParseFloat(headerValue)
                  dateMs == DateParse(headerValue) IN
              IF seconds.fin THEN Num(Max(0, seconds.v))
              ELSE IF dateMs.fin THEN Num(Max(0, dateMs.v - now))
              ELSE Undef

getRetryAfterMs(error, now) ==
    IF ~isNotionClientError(error) THEN Undef
    ELSE LET headerValue == HeaderValue(error.headers) IN
         IF headerValue \in {"<undefined>", ""}
            THEN IF error.retry_after.t = "number" /\ error.retry_after.fin
                    THEN Num(Max(0, error.retry_after.v * 1000))
                    ELSE Undef
         ELSE LET seconds == ParseFloat(headerValue)
                  dateMs == DateParse(headerValue) IN
              IF seconds.fin THEN Num(Max(0, seconds.v * 1000))
              ELSE IF dateMs.fin THEN Num(Max(0, dateMs.v - now))
              ELSE Undef

\* a backoff that is not capped, and a hint that is
computeDelayMsUncapped(count, retryAfterMs, options, rnd) ==
    IF retryAfterMs # Undef
        THEN Min(options.maxDelayMs,
                 retryAfterMs.v + RandomFloor(rnd, options.retryAfterJitterMs))
    ELSE RandomFloor(rnd, options.baseDelayMs * Pow2(count - 1))

\* rnd is the Math.random() draw, as a numerator over RandomResolution
computeDelayMs(count, retryAfterMs, options, rnd) ==
    IF retryAfterMs # Undef
        THEN LET jitter == RandomFloor(rnd, options.retryAfterJitterMs) IN
             retryAfterMs.v + jitter
    ELSE LET exponential ==
                Min(options.maxDelayMs, options.baseDelayMs * Pow2(count - 1)) IN
         RandomFloor(rnd, exponential)

\* { ...DEFAULT_RETRY_OPTIONS, ...(options || {}) }; -1 marks a key not given
resolvedOptions(options) ==
    [k \in DOMAIN DEFAULT_RETRY_OPTIONS |->
        IF options[k] = -1 THEN DEFAULT_RETRY_OPTIONS[k] ELSE options[k]]

\* new OverNotionError(error.code, message, error)
OverNotionError(code, message, originalError) ==
    [name |-> "OverNotionError", code |-> code, message |-> message,
     originalError |-> originalError]

\* a raw error, as the caller of withNotionRetry sees it when it is rethrown
RawError(error) ==
    [name |-> "Error", code |-> error.code,
     message |-> [generic |-> FALSE, text |-> "", code |-> error.code],
     originalError |-> error]

\* a catch block that rethrows whatever it caught
Rethrown(error) == RawError(error)

\* a catch block that surfaces the first failure of the call
ClassifiedFirst(error) ==
    LET first == IF rFailures = <<>> THEN error ELSE Head(rFailures) IN
    IF isNotionClientError(first)
        THEN OverNotionError(first.code, getUserFriendlyMessage(first.code), first)
        ELSE RawError(first)

\* what the catch block of withNotionRetry and of withNotionError throws
Classified(error) ==
    IF isNotionClientError(error)
        THEN OverNotionError(error.code, getUserFriendlyMessage(error.code), error)
        ELSE RawError(error)

NoThrown == [name |-> "none", code |-> "",
             message |-> [generic |-> FALSE, text |-> "", code |-> ""],
             originalError |-> NotionError("", 0, NoHeaders, Undef)]

\* what requireAuth throws: new OverNotionError('NO_AUTH', ...)
AuthError ==
    OverNotionError("NO_AUTH",
        [generic |-> FALSE,
         text |-> "Not authenticated. Run 'onotion auth login' first.",
         code |-> "NO_AUTH"],
        NotionError("", 0, NoHeaders, Undef))

\* requireAuth(apiKey): what it throws (NoThrown: it returns); the empty
\* string stands for every falsy key (undefined, '')
requireAuth(apiKey) == IF apiKey = "" THEN AuthError ELSE NoThrown



---------------------------------------------------------------------------
(* Inputs of the resilient invoker.                                        *)

\* Date.now(), in ms counted from 2025-01-01T00:00:00Z
Nows == { 2000, 9000 }

\* the options argument: no options, and overrides of the policy
OptionSets ==
    { [maxRetries |-> -1, baseDelayMs |-> -1, maxDelayMs |-> -1, retryAfterJitterMs |-> -1],
      [maxRetries |-> 2, baseDelayMs |-> 1, maxDelayMs |-> 3, retryAfterJitterMs |-> 1],
      [maxRetries |-> 0, baseDelayMs |-> -1, maxDelayMs |-> -1, retryAfterJitterMs |-> -1],
      [maxRetries |-> 3, baseDelayMs |-> 0, maxDelayMs |-> -1, retryAfterJitterMs |-> 0] }

RateLimitedHeader(s) == NotionError("rate_limited", 429, HeadersObject(s), Undef)
RateLimitedBody(n) == NotionError("rate_limited", 429, NoHeaders, Num(n))

\* An operation is the set of failures it can throw; each attempt succeeds
\* or throws one of them.
Operations ==
    { { RateLimitedHeader("1") },
      { RateLimitedBody(2), RateLimitedHeader("0"),
        NotionError("validation_error", 400, NoHeaders, Undef) },
      { NotionError("internal_server_error", 500, NoHeaders, Undef),
        NotionError("service_unavailable", 503,
                    HeadersRecord("<undefined>", "Wed, 01 Jan 2025 00:00:05 GMT"), Undef),
        NotionError("unauthorized", 401, NoHeaders, Undef),
        NotionError("conflict_error", 409, NoHeaders, Undef) },
      { NotionError("notionhq_client_request_timeout", 0, NoHeaders, Undef),
        NotionError("notionhq_client_response_error", 404, NoHeaders, Undef),
        OtherError("ECONNRESET", 0, NoHeaders, Undef),
        NotionError("object_not_found", 404, NoHeaders, Undef) },
      { NotionError("bad_gateway", 502, NoHeaders, Undef),
        NotionError("too_many_requests", 429, NoHeaders, Undef),
        NotionError("restricted_resource", 403, NoHeaders, Undef),
        OtherError("rate_limited", 503, HeadersObject("1"), Num(1)) } }

\* The failures handed to getRetryAfterMs as a pure function.
HeaderSets ==
    {NoHeaders}
    \cup { HeadersObject(s) : s \in HeaderStrings \cup {"<undefined>"} }
    \cup { HeadersRecord(lo, up) : lo \in {"<undefined>", "", "30"},
                                   up \in {"<undefined>", "1", "soon"} }

BodyHints == { Undef, Num(2), Num(0), Num(-1), NaN, Str(2) }

DelayErrors ==
    { NotionError("rate_limited", 429, h, b) : h \in HeaderSets, b \in BodyHints }
    \cup { OtherError("ECONNRESET", 0, h, b) : h \in {NoHeaders, HeadersObject("1")},
                                               b \in {Undef, Num(2)} }

---------------------------------------------------------------------------
(* withNotionRetry as a state machine.  The awaits are the steps: the call *)
(* of fn() and the wait.                                                   *)

\* a budget test that allows one retry too many
BudgetExhaustedLate(count, options) == count > options.maxRetries

\* line 123: retryCount >= resolvedOptions.maxRetries
BudgetExhausted(count, options) == count >= options.maxRetries

CallEvent == [ev |-> "call", ms |-> 0]
WaitEvent(ms) == [ev |-> "wait", ms |-> ms]

RetryIdle ==
    /\ rPc = "idle"
    /\ rOptions = DEFAULT_RETRY_OPTIONS
    /\ retryCount = 0
    /\ rLog = <<>>
    /\ rFailures = <<>>
    /\ rThrown = NoThrown
    /\ rFn = {}

DelayIdle ==
    /\ dPc = "idle"
    /\ dError = NotionError("", 0, NoHeaders, Undef)
    /\ dRetryCount = 0
    /\ dOptions = DEFAULT_RETRY_OPTIONS
    /\ dHint = Undef
    /\ dDelay = 0

DrainIdle ==
    /\ lPc = "idle"
    /\ lFn = "listAllBlockChildren"
    /\ lItems = <<>>
    /\ lPageSize = 1
    /\ lCursor = 0
    /\ lBlocks = <<>>
    /\ lRequests = <<>>

BatchIdle ==
    /\ bPc = "idle"
    /\ bChildren = <<>>
    /\ batchSize = 1
    /\ delayMs = 0
    /\ bI = 0
    /\ bResponses = <<>>
    /\ bInFlight = {}
    /\ bLog = <<>>
    /\ bRemote = <<>>

CopyIdle ==
    /\ cPc = "idle"
    /\ cSource = <<>>
    /\ cStore = <<>>
    /\ cStack = <<>>
    /\ cInflight = <<>>
    /\ cCalls = <<>>
    /\ cCopies = {}
    /\ cFailure = <<>>

FetchIdle ==
    /\ fPc = "idle"
    /\ fTree = <<>>
    /\ fDepth = 0
    /\ fStack = <<>>
    /\ fResult = <<>>
    /\ fCalls = <<>>

StreamIdle ==
    /\ sPc = "idle"
    /\ sFn = ""
    /\ sItems = <<>>
    /\ sPageSize = 1
    /\ sCursor = 0
    /\ sPage = <<>>
    /\ sLog = <<>>

MoveIdle ==
    /\ mPc = "idle"
    /\ mKey = ""
    /\ mAttempts = <<>>
    /\ mErrors = <<>>
    /\ mThrown = NoThrown

\* clientInstance = null
NoClient == [id |-> 0, auth |-> ""]

ClientIdle ==
    /\ clientInstance = NoClient
    /\ gConstructed = 0
    /\ gLog = <<>>

\* withNotionRetry(fn, options) is called: lines 116-117
RetryInit ==
    /\ rPc = "attempt"
    /\ rOptions \in { resolvedOptions(o) : o \in OptionSets }
    /\ retryCount = 0
    /\ rLog = <<>>
    /\ rFailures = <<>>
    /\ rThrown = NoThrown
    /\ rFn \in Operations

\* line 121: fn() resolves
RetryAttemptOk ==
    /\ rPc = "attempt"
    /\ rLog' = Append(rLog, CallEvent)
    /\ rPc' = "returned"
    /\ UNCHANGED <<rOptions, retryCount, rFailures, rThrown, rFn>>

\* lines 121-136: fn() rejects with error; the catch block runs up to the
\* throw, the wait or the next turn of the loop
RetryAttemptFails(error, now, rnd) ==
    /\ rPc = "attempt"
    /\ rFailures' = Append(rFailures, error)
    /\ UNCHANGED <<rOptions, rFn>>
    /\ IF ~isRetryableNotionError(error) \/ BudgetExhausted(retryCount, rOptions)
          THEN /\ rThrown' = Classified(error)
               /\ rPc' = "threw"
               /\ rLog' = Append(rLog, CallEvent)
               /\ UNCHANGED retryCount
          ELSE LET retryAfterMs == getRetryAfterMs(error, now)
                   waitMs == computeDelayMs(retryCount + 1, retryAfterMs, rOptions, rnd)
               IN /\ retryCount' = retryCount + 1
                  /\ UNCHANGED rThrown
                  /\ IF waitMs > 0
                        THEN /\ rLog' = rLog \o <<CallEvent, WaitEvent(waitMs)>>
                             /\ rPc' = "waiting"
                        ELSE /\ rLog' = Append(rLog, CallEvent)
                             /\ rPc' = "attempt"

\* line 135: the wait is over; the loop calls fn() again
RetryWaitDone ==
    /\ rPc = "waiting"
    /\ rPc' = "attempt"
    /\ UNCHANGED <<rOptions, retryCount, rLog, rFailures, rThrown, rFn>>

RetryNext ==
    \/ RetryAttemptOk /\ UNCHANGED <<delayVars, drainVars, batchVars, copyVars, fetchVars, streamVars, moveVars, clientVars>>
    \/ (\E error \in rFn, now \in Nows, rnd \in RandomDraws :
            RetryAttemptFails(error, now, rnd))
            /\ UNCHANGED <<delayVars, drainVars, batchVars, copyVars, fetchVars, streamVars, moveVars, clientVars>>
    \/ RetryWaitDone /\ UNCHANGED <<delayVars, drainVars, batchVars, copyVars, fetchVars, streamVars, moveVars, clientVars>>

InitRetry == RetryInit /\ DelayIdle /\ DrainIdle /\ BatchIdle /\ CopyIdle /\ FetchIdle /\ StreamIdle /\ MoveIdle /\ ClientIdle

SpecRetry == InitRetry /\ [][RetryNext]_vars

---------------------------------------------------------------------------
(* withNotionError as a state machine over the invoker's variables: its    *)
(* one await is the call of fn().  A run is one call of withNotionRetry or *)
(* one call of withNotionError.                                            *)

\* the codes of the failures handed to withNotionError: every code of the
\* message table and codes outside it
WrapCodes == ErrorMessageCodes \cup {"UNKNOWN_CODE", "bad_gateway", ""}

WrapFailures ==
    { NotionError(c, 400, NoHeaders, Undef) : c \in WrapCodes }
    \cup { OtherError("ECONNRESET", 0, NoHeaders, Undef),
           OtherError("unauthorized", 401, NoHeaders, Undef) }

\* withNotionError(fn) is called: line 142
WrapInit ==
    /\ rPc = "call"
    /\ rOptions = DEFAULT_RETRY_OPTIONS
    /\ retryCount = 0
    /\ rLog = <<>>
    /\ rFailures = <<>>
    /\ rThrown = NoThrown
    /\ rFn \in SUBSET WrapFailures
    /\ Cardinality(rFn) = 1

\* line 143: fn() resolves
WrapOk ==
    /\ rPc = "call"
    /\ rLog' = Append(rLog, CallEvent)
    /\ rPc' = "resolved"
    /\ UNCHANGED <<rOptions, retryCount, rFailures, rThrown, rFn>>

\* lines 144-150: fn() rejects with error; the catch block throws
WrapFails(error) ==
    /\ rPc = "call"
    /\ rLog' = Append(rLog, CallEvent)
    /\ rFailures' = Append(rFailures, error)
    /\ rThrown' = Classified(error)
    /\ rPc' = "rejected"
    /\ UNCHANGED <<rOptions, retryCount, rFn>>

WrapNext ==
    \/ WrapOk /\ UNCHANGED <<delayVars, drainVars, batchVars, copyVars, fetchVars, streamVars, moveVars, clientVars>>
    \/ (\E error \in rFn : WrapFails(error))
            /\ UNCHANGED <<delayVars, drainVars, batchVars, copyVars, fetchVars, streamVars, moveVars, clientVars>>

ClassifyNext == RetryNext \/ WrapNext

InitClassify ==
    /\ RetryInit \/ WrapInit
    /\ DelayIdle /\ DrainIdle /\ BatchIdle /\ CopyIdle /\ FetchIdle /\ StreamIdle /\ MoveIdle /\ ClientIdle

SpecClassify == InitClassify /\ [][ClassifyNext]_vars

---------------------------------------------------------------------------
(* getRetryAfterMs and computeDelayMs applied to drawn inputs.             *)

DelayInit ==
    /\ dPc = "input"
    /\ dError \in DelayErrors
    /\ dRetryCount \in 1 .. MaxRetryCount
    /\ dOptions \in { resolvedOptions(o) : o \in OptionSets }
    /\ dHint = Undef
    /\ dDelay = 0

ApplyGetRetryAfterMs(now) ==
    /\ dPc = "input"
    /\ dHint' = getRetryAfterMs(dError, now)
    /\ dPc' = "hinted"
    /\ UNCHANGED <<dError, dRetryCount, dOptions, dDelay>>

ApplyComputeDelayMs(rnd) ==
    /\ dPc = "hinted"
    /\ dDelay' = computeDelayMs(dRetryCount, dHint, dOptions, rnd)
    /\ dPc' = "delayed"
    /\ UNCHANGED <<dError, dRetryCount, dOptions, dHint>>

DelayNext ==
    \/ (\E now \in Nows : ApplyGetRetryAfterMs(now))
            /\ UNCHANGED <<retryVars, drainVars, batchVars, copyVars, fetchVars, streamVars, moveVars, clientVars>>
    \/ (\E rnd \in RandomDraws : ApplyComputeDelayMs(rnd))
            /\ UNCHANGED <<retryVars, drainVars, batchVars, copyVars, fetchVars, streamVars, moveVars, clientVars>>

InitDelay == DelayInit /\ RetryIdle /\ DrainIdle /\ BatchIdle /\ CopyIdle /\ FetchIdle /\ StreamIdle /\ MoveIdle /\ ClientIdle

SpecDelay == InitDelay /\ [][DelayNext]_vars

---------------------------------------------------------------------------
(* The remote listing call and the drains over it.                         *)
(* client.blocks.children.list answers with one page: the items from the   *)
(* cursor on, whether more follow, and the cursor of the next page.  A     *)
(* cursor is the position of the page's first item; the drains only hand   *)
(* it back.  An item is a full block (it has a type) or a partial one.     *)

ItemLists ==
    UNION { { [i \in 1 .. n |-> [id |-> i, full |-> (i \in partial) = FALSE]] :
                partial \in SUBSET (1 .. n) } : n \in 0 .. MaxItems }

\* the response to list({block_id, start_cursor}) with start_cursor = cursor
ListResponse(items, pageSize, cursor) ==
    LET first == IF cursor = 0 THEN 1 ELSE cursor
        last == Min(Len(items), first + pageSize - 1)
    IN [results |-> SubSeq(items, first, last),
        has_more |-> last < Len(items),
        next_cursor |-> IF last < Len(items) THEN last + 1 ELSE 0]

\* response.results.filter(r => 'type' in r)
FilterBlockResults(results) == SelectSeq(results, LAMBDA r : r.full)

\* a drain that never follows the continuation
NoNextCursor(response) == 0

\* response.has_more ? response.next_cursor ?? undefined : undefined
NextCursor(response) == IF response.has_more THEN response.next_cursor ELSE 0

DrainInit ==
    /\ lPc = "request"
    /\ lFn \in {"listAllBlockChildren", "fetchAllBlockChildren"}
    /\ lItems \in ItemLists
    /\ lPageSize \in 1 .. MaxPageSize
    /\ lCursor = 0
    /\ lBlocks = <<>>
    /\ lRequests = <<>>

\* one turn of the do-while loop: the listing call answers
DrainPage ==
    /\ lPc = "request"
    /\ LET response == ListResponse(lItems, lPageSize, lCursor)
           batch == FilterBlockResults(response.results)
       IN /\ lBlocks' = lBlocks \o batch
          /\ lCursor' = NextCursor(response)
          /\ lPc' = IF NextCursor(response) # 0 THEN "request" ELSE "done"
    /\ lRequests' = Append(lRequests, lCursor)
    /\ UNCHANGED <<lFn, lItems, lPageSize>>

\* the listing call fails after the invoker's retries: the drain throws
DrainPageFails ==
    /\ lPc = "request"
    /\ lPc' = "failed"
    /\ lRequests' = Append(lRequests, lCursor)
    /\ UNCHANGED <<lFn, lItems, lPageSize, lCursor, lBlocks>>

DrainNext ==
    \/ DrainPage /\ UNCHANGED <<retryVars, delayVars, batchVars, copyVars, fetchVars, streamVars, moveVars, clientVars>>
    \/ DrainPageFails /\ UNCHANGED <<retryVars, delayVars, batchVars, copyVars, fetchVars, streamVars, moveVars, clientVars>>

InitDrain == DrainInit /\ RetryIdle /\ DelayIdle /\ BatchIdle /\ CopyIdle /\ FetchIdle /\ StreamIdle /\ MoveIdle /\ ClientIdle

SpecDrain == InitDrain /\ [][DrainNext]_vars

---------------------------------------------------------------------------
(* appendBlockChildrenInBatches (blocks.ts).  appendBlockChildren goes     *)
(* through withNotionRetry; here it answers or fails for good.  The steps  *)
(* are the awaits: the append call and the wait.                           *)

IssueEvent(batch) == [ev |-> "issue", batch |-> batch, ms |-> 0]
ResponseEvent(batch) == [ev |-> "response", batch |-> batch, ms |-> 0]
DelayEvent(ms) == [ev |-> "wait", batch |-> <<>>, ms |-> ms]

\* children.slice(i, i + batchSize)
Slice(seq, i, j) == SubSeq(seq, i + 1, Min(j, Len(seq)))

\* an isLast that is never true
IsLastNever(i, size, n) == FALSE

\* line 92: i + batchSize >= children.length
IsLast(i, size, n) == i + size >= n

\* a slice that is one child short of the batch size
BatchOfShort(children, i, size) == Slice(children, i, i + size - 1)

\* line 88: the batch that starts at i
BatchOf(children, i, size) == Slice(children, i, i + size)

BatchInit ==
    /\ bPc = "start"
    /\ bChildren \in { [k \in 1 .. n |-> k] : n \in 0 .. MaxChildren }
    /\ batchSize \in 1 .. MaxBatchSize
    /\ delayMs \in {0, 350}
    /\ bI = 0
    /\ bResponses = <<>>
    /\ bInFlight = {}
    /\ bLog = <<>>
    /\ bRemote = <<>>

\* the loop test at i, and the append call when it passes (lines 87-89)
LoopFrom(i) ==
    IF i < Len(bChildren)
        THEN /\ bPc' = "outstanding"
             /\ bInFlight' = bInFlight \cup {i}
             /\ bLog' = Append(bLog, IssueEvent(BatchOf(bChildren, i, batchSize)))
        ELSE /\ bPc' = "done"
             /\ UNCHANGED <<bInFlight, bLog>>

\* the function is called: lines 86-89
BatchStart ==
    /\ bPc = "start"
    /\ LoopFrom(0)
    /\ UNCHANGED <<bChildren, batchSize, delayMs, bI, bResponses, bRemote>>

\* the append call answers: lines 89-95, and the next turn when no wait
BatchResponse ==
    /\ bPc = "outstanding"
    /\ LET batch == BatchOf(bChildren, bI, batchSize) IN
       /\ bRemote' = bRemote \o batch
       /\ bResponses' = Append(bResponses, batch)
       /\ IF ~IsLast(bI, batchSize, Len(bChildren)) /\ delayMs > 0
             THEN /\ bPc' = "waiting"
                  /\ bInFlight' = bInFlight \ {bI}
                  /\ bLog' = bLog \o <<ResponseEvent(batch), DelayEvent(delayMs)>>
                  /\ UNCHANGED bI
             ELSE /\ bI' = bI + batchSize
                  /\ IF bI + batchSize < Len(bChildren)
                        THEN /\ bPc' = "outstanding"
                             /\ bInFlight' = (bInFlight \ {bI}) \cup {bI + batchSize}
                             /\ bLog' = bLog \o
                                    <<ResponseEvent(batch),
                                      IssueEvent(BatchOf(bChildren, bI + batchSize, batchSize))>>
                        ELSE /\ bPc' = "done"
                             /\ bInFlight' = bInFlight \ {bI}
                             /\ bLog' = Append(bLog, ResponseEvent(batch))
    /\ UNCHANGED <<bChildren, batchSize, delayMs>>

\* a failure after which the chunks already appended are removed again
BatchFailsUndo ==
    /\ bPc = "outstanding"
    /\ bPc' = "failed"
    /\ bInFlight' = bInFlight \ {bI}
    /\ bRemote' = <<>>
    /\ UNCHANGED <<bChildren, batchSize, delayMs, bI, bResponses, bLog>>

\* the append call fails after the invoker's retries: the function throws
BatchFails ==
    /\ bPc = "outstanding"
    /\ bPc' = "failed"
    /\ bInFlight' = bInFlight \ {bI}
    /\ UNCHANGED <<bChildren, batchSize, delayMs, bI, bResponses, bLog, bRemote>>

\* line 94: the wait is over; the next turn of the loop
BatchWaitDone ==
    /\ bPc = "waiting"
    /\ bI' = bI + batchSize
    /\ LoopFrom(bI + batchSize)
    /\ UNCHANGED <<bChildren, batchSize, delayMs, bResponses, bRemote>>

BatchNext ==
    \/ BatchStart /\ UNCHANGED <<retryVars, delayVars, drainVars, copyVars, fetchVars, streamVars, moveVars, clientVars>>
    \/ BatchResponse /\ UNCHANGED <<retryVars, delayVars, drainVars, copyVars, fetchVars, streamVars, moveVars, clientVars>>
    \/ BatchFails /\ UNCHANGED <<retryVars, delayVars, drainVars, copyVars, fetchVars, streamVars, moveVars, clientVars>>
    \/ BatchWaitDone /\ UNCHANGED <<retryVars, delayVars, drainVars, copyVars, fetchVars, streamVars, moveVars, clientVars>>

InitBatch == BatchInit /\ RetryIdle /\ DelayIdle /\ DrainIdle /\ CopyIdle /\ FetchIdle /\ StreamIdle /\ MoveIdle /\ ClientIdle

SpecBatch == InitBatch /\ [][BatchNext]_vars

---------------------------------------------------------------------------
(* Blocks.  A source block is a node of the source page's tree; its id is  *)
(* its path from the page (the list of child positions).  A created block  *)
(* is an entry of cStore; its id is its index.  The payload of a block is  *)
(* its text (a label and a number; a placeholder's message and the type it *)
(* names), the cells of a table row, the shape of a table and the block a  *)
(* synced block is synced from ("": none).                                 *)

Text(label, n) == [msg |-> "", arg |-> label, n |-> n]
NoText == Text("", 0)
NoTable == [table_width |-> 0, has_column_header |-> FALSE, has_row_header |-> FALSE]
TableShape(w, ch, rh) ==
    [table_width |-> w, has_column_header |-> ch, has_row_header |-> rh]

\* a node of the source tree
Node(type, text, has_children, kids) ==
    [type |-> type, text |-> text, has_children |-> has_children, cells |-> <<>>,
     table |-> NoTable, synced_from |-> "", kids |-> kids]

Paragraph(label) == Node("paragraph", Text(label, 0), FALSE, <<>>)
Toggle(label, kids) == Node("toggle", Text(label, 0), kids # <<>>, kids)
Column(kids) == Node("column", NoText, kids # <<>>, kids)
ColumnList(columns) == Node("column_list", NoText, columns # <<>>, columns)
\* a cell of a table row is a list of rich text items; an empty cell is <<>>
Cell(label, n) == <<Text(label, n)>>
TableRow(cells) == [Node("table_row", NoText, FALSE, <<>>) EXCEPT !.cells = cells]
Table(shape, rows) ==
    [Node("table", NoText, rows # <<>>, rows) EXCEPT !.table = shape]
ChildPage(label, kids) == Node("child_page", Text(label, 0), kids # <<>>, kids)
SyncedBlock(from, kids) ==
    [Node("synced_block", NoText, kids # <<>>, kids) EXCEPT !.synced_from = from]
Page(kids) == Node("page", NoText, kids # <<>>, kids)

RECURSIVE NodeAt(_, _)
NodeAt(node, path) ==
    IF path = <<>> THEN node ELSE NodeAt(node.kids[Head(path)], Tail(path))

\* a block object as a listing or an append call returns it
BlockObject(id, b, has_children) ==
    [id |-> id, full |-> TRUE, type |-> b.type, text |-> b.text,
     has_children |-> has_children, cells |-> b.cells, table |-> b.table,
     synced_from |-> b.synced_from]

\* firstRow when copyTableContents found no row: undefined
NoBlock == BlockObject(0, Node("", NoText, FALSE, <<>>), FALSE)

\* a block as an append call creates it (BlockObjectRequest)
BlockRequest(type, text, children) ==
    [type |-> type, text |-> text, cells |-> <<>>, table |-> NoTable,
     synced_from |-> "", children |-> children]

---------------------------------------------------------------------------
(* The content normalizer (client.ts).                                     *)

copyBatchSize == 50
rowBatchSize == 50

\* the types whose payload blockToCreateRequest copies
CopiedTypes ==
    { "paragraph", "heading_1", "heading_2", "heading_3", "bulleted_list_item",
      "numbered_list_item", "quote", "toggle", "template", "to_do", "callout",
      "code", "equation", "divider", "breadcrumb", "table_of_contents", "embed",
      "bookmark", "link_to_page", "image", "video", "pdf", "file", "audio" }

\* placeholderBlock(`Unsupported block type: ${type}`)
placeholderBlock(type) ==
    BlockRequest("paragraph", [msg |-> "Unsupported block type: ", arg |-> type, n |-> 0], <<>>)

\* a column list request that always falls back to two columns
createTwoColumnListRequest(columnCount) ==
    BlockRequest("column_list", NoText,
                 [c \in 1 .. 2 |-> BlockRequest("column", NoText, <<>>)])

createColumnListRequest(columnCount) ==
    LET safeCount == IF columnCount > 0 THEN columnCount ELSE 2 IN
    BlockRequest("column_list", NoText,
                 [c \in 1 .. safeCount |-> BlockRequest("column", NoText, <<>>)])

tableRowToRequest(row) ==
    [BlockRequest("table_row", NoText, <<>>) EXCEPT !.cells = row.cells]

\* an empty row of one cell, whatever the width
emptyTableRowOfOneCell(tableWidth) ==
    [BlockRequest("table_row", NoText, <<>>) EXCEPT !.cells = <<<<>>>>]

emptyTableRowRequest(tableWidth) ==
    LET width == IF tableWidth > 0 THEN tableWidth ELSE 1 IN
    [BlockRequest("table_row", NoText, <<>>) EXCEPT !.cells = [c \in 1 .. width |-> <<>>]]

createTableRequest(tableBlock, firstRow) ==
    LET tableWidth == IF tableBlock.table.table_width > 0
                        THEN tableBlock.table.table_width ELSE 1
        initialRow == IF firstRow.type = "table_row"
                        THEN tableRowToRequest(firstRow)
                        ELSE emptyTableRowRequest(tableWidth)
    IN [BlockRequest("table", NoText, <<initialRow>>) EXCEPT
            !.table = TableShape(tableWidth, tableBlock.table.has_column_header,
                                 tableBlock.table.has_row_header)]

\* { synced_from: { type: 'block_id', block_id } } or { synced_from: null }
normalizeSyncedBlock(block) == block.synced_from

\* a normalizer that degrades every block to a placeholder
blockToPlaceholder(block) == placeholderBlock(block.type)

blockToCreateRequest(block) ==
    CASE block.type \in CopiedTypes -> BlockRequest(block.type, block.text, <<>>)
      [] block.type = "table" -> createTableRequest(block, NoBlock)
      [] block.type = "column_list" -> createColumnListRequest(2)
      [] block.type = "synced_block" ->
            [BlockRequest("synced_block", NoText, <<>>) EXCEPT
                !.synced_from = normalizeSyncedBlock(block)]
      [] OTHER -> placeholderBlock(block.type)

\* a batch that is one block short
PendingBatchShort(pending, i) == Slice(pending, i, i + copyBatchSize - 1)

\* line 584: pending.slice(i, i + batchSize)
PendingBatch(pending, i) == Slice(pending, i, i + copyBatchSize)

---------------------------------------------------------------------------
(* The remote: client.blocks.children.list and .append, each through       *)
(* withNotionRetry.  A call answers or fails for good.  A listing is       *)
(* answered whole (the drain over its pages is SpecDrain's).               *)

ListSourceRequest(path) ==
    [op |-> "list", side |-> "source", src_id |-> path, tgt_id |-> 0, children |-> <<>>]
ListTargetRequest(id) ==
    [op |-> "list", side |-> "target", src_id |-> <<>>, tgt_id |-> id, children |-> <<>>]
\* client.pages.retrieve({page_id: pageId}) and client.pages.create(createParams)
RetrieveRequest ==
    [op |-> "retrieve", side |-> "source", src_id |-> <<>>, tgt_id |-> 0, children |-> <<>>]
CreatePageRequest ==
    [op |-> "create", side |-> "target", src_id |-> <<>>, tgt_id |-> 0, children |-> <<>>]
AppendRequest(id, children) ==
    [op |-> "append", side |-> "target", src_id |-> <<>>, tgt_id |-> id,
     children |-> children]

\* the created block of a request, childless so far
Created(req) ==
    [type |-> req.type, text |-> req.text, cells |-> req.cells, table |-> req.table,
     synced_from |-> req.synced_from, kids |-> <<>>]

\* how many blocks the requests before the k-th create, nested ones included
\* (a request nests one level of children: the columns of a column list,
\* the rows of a table)
CreatedBefore(requests, k) ==
    Cardinality(UNION { { <<m, c>> : c \in 0 .. Len(requests[m].children) } :
                        m \in 1 .. (k - 1) })

\* the store after the remote appended the requested blocks, and the blocks
\* nested in the requests, under parent: the blocks get the next ids, each
\* request's block first and its nested blocks right after it
AppendAll(store, parent, requests) ==
    LET n == Len(requests)
        idOf(k) == Len(store) + CreatedBefore(requests, k) + 1
        blockAt(t) ==
            LET k == CHOOSE r \in 1 .. n :
                        /\ CreatedBefore(requests, r) + 1 <= t
                        /\ t <= CreatedBefore(requests, r + 1)
                c == t - CreatedBefore(requests, k) - 1
            IN IF c = 0
                THEN [Created(requests[k]) EXCEPT
                        !.kids = [x \in 1 .. Len(requests[k].children) |-> idOf(k) + x]]
                ELSE Created(requests[k].children[c])
    IN [store EXCEPT ![parent].kids = @ \o [k \in 1 .. n |-> idOf(k)]]
        \o [t \in 1 .. CreatedBefore(requests, n + 1) |-> blockAt(t)]

TargetObject(store, id) == BlockObject(id, store[id], store[id].kids # <<>>)

\* the results of the call, given the store before and after it
Results(req, before, after) ==
    CASE req.op = "list" /\ req.side = "source" ->
            LET kids == NodeAt(cSource, req.src_id).kids IN
            [k \in 1 .. Len(kids) |->
                BlockObject(req.src_id \o <<k>>, kids[k], kids[k].has_children)]
      [] req.op = "list" /\ req.side = "target" ->
            [k \in 1 .. Len(before[req.tgt_id].kids) |->
                TargetObject(before, before[req.tgt_id].kids[k])]
      [] req.op = "retrieve" -> <<BlockObject(<<>>, cSource, cSource.has_children)>>
      [] req.op = "create" -> <<TargetObject(after, Len(after))>>
      [] OTHER ->
            LET old == Len(before[req.tgt_id].kids)
                new == Len(after[req.tgt_id].kids)
            IN [k \in 1 .. new - old |->
                    TargetObject(after, after[req.tgt_id].kids[old + k])]

---------------------------------------------------------------------------
(* The source pages that are copied.                                       *)

\* the blocks a short page is made of
Shapes ==
    { Paragraph("A"),
      Toggle("T", <<Paragraph("B")>>),
      ColumnList(<<Column(<<Paragraph("B")>>), Column(<<Paragraph("C")>>)>>),
      ColumnList(<<Column(<<>>), Column(<<Toggle("T", <<Paragraph("C")>>)>>),
                   Column(<<>>)>>),
      ColumnList(<<>>),
      Table(TableShape(2, TRUE, FALSE),
            <<TableRow(<<Cell("h1", 0), Cell("h2", 0)>>), TableRow(<<Cell("a", 0), Cell("b", 0)>>),
              TableRow(<<Cell("c", 0), Cell("d", 0)>>)>>),
      Table(TableShape(3, FALSE, FALSE), <<>>),
      ChildPage("sub", <<Paragraph("E")>>),
      Node("child_database", NoText, FALSE, <<>>),
      Node("unsupported", NoText, FALSE, <<>>),
      Node("link_preview", NoText, FALSE, <<>>),
      SyncedBlock("", <<Paragraph("S")>>),
      SyncedBlock("block-of-another-page", <<>>) }

ShortPages ==
    UNION { { Page(kids) : kids \in [1 .. n -> Shapes] } : n \in 0 .. MaxSiblings }

\* the end-to-end scenario: [A, column_list([B], [C]), D]
ScenarioPage ==
    Page(<<Paragraph("A"),
           ColumnList(<<Column(<<Paragraph("B")>>), Column(<<Paragraph("C")>>)>>),
           Paragraph("D")>>)

\* a page of n numbered children: toggles with nested content at the given
\* positions, a column list at position container (0: none), else paragraphs
LongPage(n, toggles, container) ==
    Page([k \in 1 .. n |->
            IF k = container
                THEN ColumnList(<<Column(<<Paragraph("B")>>)>>)
            ELSE IF k \in toggles
                THEN Node("toggle", Text("T", k), TRUE, <<Node("paragraph", Text("N", k), FALSE, <<>>)>>)
            ELSE Node("paragraph", Text("P", k), FALSE, <<>>)])

LongPages ==
    { LongPage(copyBatchSize, {copyBatchSize}, 0),
      LongPage(copyBatchSize + 1, {1, copyBatchSize + 1}, 0),
      LongPage(copyBatchSize + MaxSiblings, {copyBatchSize + 1}, copyBatchSize + MaxSiblings),
      LongPage(2 * copyBatchSize + 1, {copyBatchSize, 2 * copyBatchSize + 1}, 0) }

\* a table of width 2 with r numbered rows
LongTable(r) ==
    Table(TableShape(2, TRUE, TRUE),
          [k \in 1 .. r |-> TableRow(<<Cell("r", k), Cell("c", k)>>)])

\* tables of one row, of one full batch of later rows and of more
TablePages ==
    { Page(<<Paragraph("A"), LongTable(r), Paragraph("D")>>) :
        r \in {1, rowBatchSize + 1, rowBatchSize + 2} }

SourcePages == ShortPages \cup {ScenarioPage} \cup LongPages \cup TablePages

---------------------------------------------------------------------------
(* copyBlockTree, copyTableContents and copyColumnListContents as frames   *)
(* of a stack.  A frame holds the locals of one invocation and the place   *)
(* it has reached; a step runs the innermost frame up to its next place.   *)

Frame(fn, src, tgt, block) ==
    [fn |-> fn, pc |-> "start", cont |-> "", after |-> "", src |-> src, tgt |-> tgt,
     block |-> block, children |-> <<>>, targets |-> <<>>, pending |-> <<>>,
     batch |-> <<>>, k |-> 0, i |-> 0, j |-> 0, resp |-> <<>>]

Top == cStack[Len(cStack)]

At(fn, pc) == cPc = "running" /\ cStack # <<>> /\ Top.fn = fn /\ Top.pc = pc

\* the innermost frame moves on
Goto(f) ==
    /\ cStack' = [cStack EXCEPT ![Len(cStack)] = f]
    /\ UNCHANGED <<cPc, cSource, cStore, cInflight, cCalls, cCopies, cFailure>>

\* a remote call that does not suspend its caller
IssueWithoutAwait(f, req) ==
    /\ cInflight' = Append(cInflight, req)
    /\ cCalls' = Append(cCalls, req)
    /\ UNCHANGED <<cPc, cSource, cStore, cStack, cCopies, cFailure>>

\* the innermost frame awaits a remote call
Issue(f, req) ==
    /\ cStack' = [cStack EXCEPT ![Len(cStack)] = [f EXCEPT !.pc = "await"]]
    /\ cInflight' = Append(cInflight, req)
    /\ cCalls' = Append(cCalls, req)
    /\ UNCHANGED <<cPc, cSource, cStore, cCopies, cFailure>>

\* the innermost frame awaits an invocation of one of the three functions
Invoke(f, g) ==
    /\ cStack' = Append([cStack EXCEPT ![Len(cStack)] = f], g)
    /\ cCopies' = IF g.fn = "copyBlockTree"
                    THEN cCopies \cup {[src |-> g.src, tgt |-> g.tgt]}
                    ELSE cCopies
    /\ UNCHANGED <<cPc, cSource, cStore, cInflight, cCalls, cFailure>>

\* duplicatePage(pageId) is called (line 454)
CopyInit ==
    /\ cPc = "running"
    /\ cSource \in SourcePages
    /\ cStore = <<>>
    /\ cStack = <<Frame("duplicatePage", <<>>, 0, NoBlock)>>
    /\ cInflight = <<>>
    /\ cCalls = <<>>
    /\ cCopies = {}
    /\ cFailure = <<>>

\* the remote answers the outstanding call
RemoteAnswers ==
    /\ cPc = "running"
    /\ cInflight # <<>>
    /\ LET req == Head(cInflight)
           after == CASE req.op = "append" ->
                            AppendAll(cStore, req.tgt_id, req.children)
                      [] req.op = "create" ->
                            Append(cStore, Created(BlockRequest("page", NoText, <<>>)))
                      [] OTHER -> cStore
       IN /\ cStore' = after
          /\ cStack' = [cStack EXCEPT ![Len(cStack)] =
                            [Top EXCEPT !.resp = Results(req, cStore, after),
                                        !.pc = Top.cont]]
    /\ cInflight' = Tail(cInflight)
    /\ UNCHANGED <<cPc, cSource, cCalls, cCopies, cFailure>>

\* a failed listing or append call whose failure is swallowed: the awaiting
\* function goes on as after an answer without results
RemoteFailsSwallowed ==
    /\ cPc = "running"
    /\ cInflight # <<>>
    /\ Head(cInflight).op \in {"list", "append"}
    /\ cInflight' = Tail(cInflight)
    /\ cFailure' = Append(cFailure, Head(cInflight))
    /\ cStack' = [cStack EXCEPT ![Len(cStack)] = [Top EXCEPT !.resp = <<>>, !.pc = Top.cont]]
    /\ UNCHANGED <<cPc, cSource, cStore, cCalls, cCopies>>

\* a failure after which what the job created is removed again
RemoteFailsRollsBack ==
    /\ cPc = "running"
    /\ cInflight # <<>>
    /\ cInflight' = Tail(cInflight)
    /\ cFailure' = Append(cFailure, Head(cInflight))
    /\ cStack' = <<>>
    /\ cStore' = <<>>
    /\ cPc' = "failed"
    /\ UNCHANGED <<cSource, cCalls, cCopies>>

\* the outstanding call fails after the invoker's retries: no function of
\* the job catches, so every awaiting function rejects, duplicatePage last
RemoteFails ==
    /\ cPc = "running"
    /\ cInflight # <<>>
    /\ cInflight' = Tail(cInflight)
    /\ cFailure' = Append(cFailure, Head(cInflight))
    /\ cStack' = <<>>
    /\ cPc' = "failed"
    /\ UNCHANGED <<cSource, cStore, cCalls, cCopies>>

\* lines 462-464: the source page is retrieved
DupRetrieve ==
    /\ At("duplicatePage", "start")
    /\ Issue([Top EXCEPT !.cont = "retrieved"], RetrieveRequest)

\* lines 466-492: the new page is created under the source page's parent
DupCreate ==
    /\ At("duplicatePage", "retrieved")
    /\ Issue([Top EXCEPT !.cont = "created"], CreatePageRequest)

\* line 494: copyBlockTree(client, pageId, newPage.id); line 496 follows it
DupCopy ==
    /\ At("duplicatePage", "created")
    /\ Invoke([Top EXCEPT !.pc = "return"],
              Frame("copyBlockTree", <<>>, Top.resp[1].id, NoBlock))

\* line 576: listAllBlockChildren(client, sourceParentId)
CbtList ==
    /\ At("copyBlockTree", "start")
    /\ Issue([Top EXCEPT !.cont = "listed"], ListSourceRequest(Top.src))

\* lines 576-579
CbtListed ==
    /\ At("copyBlockTree", "listed")
    /\ Goto([Top EXCEPT !.children = FilterBlockResults(Top.resp), !.k = 1,
                        !.pending = <<>>, !.pc = "loop"])

\* a loop that handles the container with the pending run still unsent
BeforeContainerNoFlush == "container"

\* line 616: await flush() comes first when a container is met
BeforeContainer == "flush"

\* lines 610-616 and 641: one turn of the loop over sourceChildren
CbtLoop ==
    /\ At("copyBlockTree", "loop")
    /\ IF Top.k > Len(Top.children)
          THEN Goto([Top EXCEPT !.pc = "flush", !.after = "return"])
       ELSE IF Top.children[Top.k].type \notin {"column_list", "table"}
          THEN Goto([Top EXCEPT !.pending = Append(@, Top.children[Top.k]),
                                !.k = @ + 1])
       ELSE Goto([Top EXCEPT !.pc = BeforeContainer, !.after = "container"])

\* lines 582-583: flush is entered
CbtFlush ==
    /\ At("copyBlockTree", "flush")
    /\ IF Top.pending = <<>>
          THEN Goto([Top EXCEPT !.pc = Top.after])
          ELSE Goto([Top EXCEPT !.i = 0, !.pc = "flushBatch"])

\* lines 583-591 and 607: the next batch of pending is appended
CbtFlushBatch ==
    /\ At("copyBlockTree", "flushBatch")
    /\ IF Top.i >= Len(Top.pending)
          THEN Goto([Top EXCEPT !.pending = <<>>, !.pc = Top.after])
          ELSE LET batch == PendingBatch(Top.pending, Top.i) IN
               Issue([Top EXCEPT !.batch = batch, !.cont = "flushed"],
                     AppendRequest(Top.tgt,
                        [b \in 1 .. Len(batch) |-> blockToCreateRequest(batch[b])]))

\* lines 593-595
CbtFlushed ==
    /\ At("copyBlockTree", "flushed")
    /\ Goto([Top EXCEPT !.targets = FilterBlockResults(Top.resp), !.j = 0,
                        !.pc = "walk"])

\* a pairing that takes the first created block for every source block
PairedCreatedFirst(createdBlocks, j) == createdBlocks[1]

\* line 599: createdBlocks[j]
PairedCreated(createdBlocks, j) == createdBlocks[j + 1]

\* lines 597-605: one turn of the loop over the batch
CbtWalk ==
    /\ At("copyBlockTree", "walk")
    /\ IF Top.j >= Len(Top.batch)
          THEN Goto([Top EXCEPT !.i = @ + copyBatchSize, !.pc = "flushBatch"])
       ELSE IF Top.j + 1 > Len(Top.targets)
          THEN Goto([Top EXCEPT !.j = @ + 1])
       ELSE IF Top.batch[Top.j + 1].has_children
          THEN Invoke([Top EXCEPT !.j = @ + 1],
                      Frame("copyBlockTree", Top.batch[Top.j + 1].id,
                            PairedCreated(Top.targets, Top.j).id, NoBlock))
       ELSE Goto([Top EXCEPT !.j = @ + 1])

\* lines 618-623: the container that stopped the loop
CbtContainer ==
    /\ At("copyBlockTree", "container")
    /\ LET sourceBlock == Top.children[Top.k] IN
       IF sourceBlock.type = "table"
          THEN Invoke([Top EXCEPT !.k = @ + 1, !.pc = "loop"],
                      Frame("copyTableContents", sourceBlock.id, Top.tgt, sourceBlock))
          ELSE Issue([Top EXCEPT !.cont = "columnsListed"],
                     ListSourceRequest(sourceBlock.id))

\* lines 623-631
CbtColumnsListed ==
    /\ At("copyBlockTree", "columnsListed")
    /\ LET sourceColumns == FilterBlockResults(Top.resp)
           columnCount == IF Len(sourceColumns) > 0 THEN Len(sourceColumns) ELSE 2
       IN Issue([Top EXCEPT !.cont = "columnListCreated"],
                AppendRequest(Top.tgt, <<createColumnListRequest(columnCount)>>))

\* lines 633-638
CbtColumnListCreated ==
    /\ At("copyBlockTree", "columnListCreated")
    /\ LET found == SelectSeq(Top.resp, LAMBDA r : r.full /\ r.type = "column_list") IN
       IF found = <<>>
          THEN Goto([Top EXCEPT !.k = @ + 1, !.pc = "loop"])
          ELSE Invoke([Top EXCEPT !.k = @ + 1, !.pc = "loop"],
                      Frame("copyColumnListContents", Top.children[Top.k].id,
                            found[1].id, NoBlock))

\* line 650
CtcList ==
    /\ At("copyTableContents", "start")
    /\ Issue([Top EXCEPT !.cont = "rowsListed"], ListSourceRequest(Top.src))

\* lines 650-659
CtcRowsListed ==
    /\ At("copyTableContents", "rowsListed")
    /\ LET sourceRows == SelectSeq(FilterBlockResults(Top.resp),
                                   LAMBDA b : b.type = "table_row")
           firstRow == IF sourceRows = <<>> THEN NoBlock ELSE sourceRows[1]
       IN Issue([Top EXCEPT !.children = sourceRows, !.cont = "tableCreated"],
                AppendRequest(Top.tgt, <<createTableRequest(Top.block, firstRow)>>))

\* lines 661-669
CtcTableCreated ==
    /\ At("copyTableContents", "tableCreated")
    /\ LET found == SelectSeq(Top.resp, LAMBDA r : r.full /\ r.type = "table") IN
       IF found = <<>> THEN Goto([Top EXCEPT !.pc = "return"])
       ELSE IF Len(Top.children) <= 1 THEN Goto([Top EXCEPT !.pc = "return"])
       ELSE Goto([Top EXCEPT !.targets = <<found[1]>>, !.i = 1, !.pc = "rowBatch"])

\* a batch of rows that is one row short
RowBatchShort(sourceRows, i) == Slice(sourceRows, i, i + rowBatchSize - 1)

\* line 671: sourceRows.slice(i, i + batchSize)
RowBatch(sourceRows, i) == Slice(sourceRows, i, i + rowBatchSize)

\* lines 670-677: the next batch of rows is appended to the new table
CtcRowBatch ==
    /\ At("copyTableContents", "rowBatch")
    /\ IF Top.i >= Len(Top.children)
          THEN Goto([Top EXCEPT !.pc = "return"])
          ELSE LET batch == RowBatch(Top.children, Top.i) IN
               Issue([Top EXCEPT !.i = @ + rowBatchSize, !.cont = "rowBatch"],
                     AppendRequest(Top.targets[1].id,
                        [b \in 1 .. Len(batch) |-> tableRowToRequest(batch[b])]))

\* a pairing that takes the target columns from the end
PairedColumnReversed(targetColumns, i) == targetColumns[Len(targetColumns) - i]

\* line 691: targetColumns[i]
PairedColumn(targetColumns, i) == targetColumns[i + 1]

\* line 686
CclListSource ==
    /\ At("copyColumnListContents", "start")
    /\ Issue([Top EXCEPT !.cont = "sourceListed"], ListSourceRequest(Top.src))

\* lines 686-687
CclListTarget ==
    /\ At("copyColumnListContents", "sourceListed")
    /\ Issue([Top EXCEPT !.children = FilterBlockResults(Top.resp),
                         !.cont = "targetListed"],
             ListTargetRequest(Top.tgt))

\* lines 687-689
CclListed ==
    /\ At("copyColumnListContents", "targetListed")
    /\ Goto([Top EXCEPT !.targets = FilterBlockResults(Top.resp), !.i = 0,
                        !.pc = "pairs"])

\* lines 689-692: one turn of the loop over the pairs of columns
CclPair ==
    /\ At("copyColumnListContents", "pairs")
    /\ IF Top.i >= Min(Len(Top.children), Len(Top.targets))
          THEN Goto([Top EXCEPT !.pc = "return"])
          ELSE Invoke([Top EXCEPT !.i = @ + 1],
                      Frame("copyBlockTree", Top.children[Top.i + 1].id,
                            PairedColumn(Top.targets, Top.i).id, NoBlock))

\* a function returns: its caller goes on, or the job is done
Return ==
    /\ cPc = "running"
    /\ cStack # <<>>
    /\ Top.pc = "return"
    /\ cStack' = SubSeq(cStack, 1, Len(cStack) - 1)
    /\ cPc' = IF Len(cStack) = 1 THEN "done" ELSE "running"
    /\ UNCHANGED <<cSource, cStore, cInflight, cCalls, cCopies, cFailure>>

CopyNext ==
    \/ RemoteAnswers /\ UNCHANGED <<retryVars, delayVars, drainVars, batchVars, fetchVars, streamVars, moveVars, clientVars>>
    \/ DupRetrieve /\ UNCHANGED <<retryVars, delayVars, drainVars, batchVars, fetchVars, streamVars, moveVars, clientVars>>
    \/ DupCreate /\ UNCHANGED <<retryVars, delayVars, drainVars, batchVars, fetchVars, streamVars, moveVars, clientVars>>
    \/ DupCopy /\ UNCHANGED <<retryVars, delayVars, drainVars, batchVars, fetchVars, streamVars, moveVars, clientVars>>
    \/ RemoteFails /\ UNCHANGED <<retryVars, delayVars, drainVars, batchVars, fetchVars, streamVars, moveVars, clientVars>>
    \/ CbtList /\ UNCHANGED <<retryVars, delayVars, drainVars, batchVars, fetchVars, streamVars, moveVars, clientVars>>
    \/ CbtListed /\ UNCHANGED <<retryVars, delayVars, drainVars, batchVars, fetchVars, streamVars, moveVars, clientVars>>
    \/ CbtLoop /\ UNCHANGED <<retryVars, delayVars, drainVars, batchVars, fetchVars, streamVars, moveVars, clientVars>>
    \/ CbtFlush /\ UNCHANGED <<retryVars, delayVars, drainVars, batchVars, fetchVars, streamVars, moveVars, clientVars>>
    \/ CbtFlushBatch /\ UNCHANGED <<retryVars, delayVars, drainVars, batchVars, fetchVars, streamVars, moveVars, clientVars>>
    \/ CbtFlushed /\ UNCHANGED <<retryVars, delayVars, drainVars, batchVars, fetchVars, streamVars, moveVars, clientVars>>
    \/ CbtWalk /\ UNCHANGED <<retryVars, delayVars, drainVars, batchVars, fetchVars, streamVars, moveVars, clientVars>>
    \/ CbtContainer /\ UNCHANGED <<retryVars, delayVars, drainVars, batchVars, fetchVars, streamVars, moveVars, clientVars>>
    \/ CbtColumnsListed /\ UNCHANGED <<retryVars, delayVars, drainVars, batchVars, fetchVars, streamVars, moveVars, clientVars>>
    \/ CbtColumnListCreated /\ UNCHANGED <<retryVars, delayVars, drainVars, batchVars, fetchVars, streamVars, moveVars, clientVars>>
    \/ CtcList /\ UNCHANGED <<retryVars, delayVars, drainVars, batchVars, fetchVars, streamVars, moveVars, clientVars>>
    \/ CtcRowsListed /\ UNCHANGED <<retryVars, delayVars, drainVars, batchVars, fetchVars, streamVars, moveVars, clientVars>>
    \/ CtcTableCreated /\ UNCHANGED <<retryVars, delayVars, drainVars, batchVars, fetchVars, streamVars, moveVars, clientVars>>
    \/ CtcRowBatch /\ UNCHANGED <<retryVars, delayVars, drainVars, batchVars, fetchVars, streamVars, moveVars, clientVars>>
    \/ CclListSource /\ UNCHANGED <<retryVars, delayVars, drainVars, batchVars, fetchVars, streamVars, moveVars, clientVars>>
    \/ CclListTarget /\ UNCHANGED <<retryVars, delayVars, drainVars, batchVars, fetchVars, streamVars, moveVars, clientVars>>
    \/ CclListed /\ UNCHANGED <<retryVars, delayVars, drainVars, batchVars, fetchVars, streamVars, moveVars, clientVars>>
    \/ CclPair /\ UNCHANGED <<retryVars, delayVars, drainVars, batchVars, fetchVars, streamVars, moveVars, clientVars>>
    \/ Return /\ UNCHANGED <<retryVars, delayVars, drainVars, batchVars, fetchVars, streamVars, moveVars, clientVars>>

\* the remote creates the blocks of an append call but answers with one of
\* them, the first or the last, as a partial object (without `type`)
RemoteAnswersShort ==
    /\ cPc = "running"
    /\ cInflight # <<>>
    /\ Head(cInflight).op = "append"
    /\ LET req == Head(cInflight)
           after == AppendAll(cStore, req.tgt_id, req.children)
           results == Results(req, cStore, after)
       IN \E d \in {1, Len(results)} :
            /\ cStore' = after
            /\ cStack' = [cStack EXCEPT ![Len(cStack)] =
                            [Top EXCEPT !.resp = [results EXCEPT ![d].full = FALSE],
                                        !.pc = Top.cont]]
    /\ cInflight' = Tail(cInflight)
    /\ UNCHANGED <<cPc, cSource, cCalls, cCopies, cFailure>>

CopyLossyNext ==
    \/ CopyNext
    \/ RemoteAnswersShort /\ UNCHANGED <<retryVars, delayVars, drainVars, batchVars, fetchVars, streamVars, moveVars, clientVars>>

InitCopy == CopyInit /\ RetryIdle /\ DelayIdle /\ DrainIdle /\ BatchIdle /\ FetchIdle /\ StreamIdle /\ MoveIdle /\ ClientIdle

SpecCopy == InitCopy /\ [][CopyNext]_vars

\* the replication against a remote that may answer an append call short
SpecCopyLossy == InitCopy /\ [][CopyLossyNext]_vars

---------------------------------------------------------------------------
(* fetchAllBlocks (commands/page.ts) as frames of a stack.  A block is its *)
(* path from the page; its nesting level is the length of the path.  The   *)
(* listing of a block's children is answered whole (the drain over its     *)
(* pages is SpecDrain's).                                                   *)

\* the pages that are fetched: up to four levels of nesting
FetchTrees ==
    { Page(<<>>),
      Page(<<Paragraph("A"), Toggle("T", <<Paragraph("B")>>)>>),
      Page(<<Toggle("T", <<Toggle("U", <<Paragraph("C")>>)>>), Paragraph("D")>>),
      Page(<<Toggle("T", <<Toggle("U", <<Toggle("V", <<Paragraph("E")>>)>>)>>)>>),
      Page(<<Toggle("T", <<Paragraph("B"), Toggle("U", <<Paragraph("C")>>)>>),
             Toggle("W", <<Paragraph("F")>>)>>) }

\* the full blocks getBlockChildren lists under blockId
ChildBlocks(blockId) ==
    LET kids == NodeAt(fTree, blockId).kids IN
    [k \in 1 .. Len(kids) |->
        [id |-> blockId \o <<k>>, has_children |-> kids[k].has_children]]

FetchFrame(blockId, depth) ==
    [blockId |-> blockId, depth |-> depth, pc |-> "list", blocks |-> <<>>, idx |-> 0]

FetchTop == fStack[Len(fStack)]

FetchAt(pc) == fPc = "running" /\ fStack # <<>> /\ FetchTop.pc = pc

\* fetchAllBlocks(pageId, parseInt(options.depth || '1', 10), ...)
FetchInit ==
    /\ fPc = "running"
    /\ fTree \in FetchTrees
    /\ fDepth \in 1 .. MaxDepth
    /\ fStack = <<FetchFrame(<<>>, fDepth)>>
    /\ fResult = <<>>
    /\ fCalls = <<>>

\* line 432: if (depth > 1)
Descends(depth) == depth > 1

\* lines 422-432: the drain of the block's children has ended
FetchListed ==
    /\ FetchAt("list")
    /\ fStack' = [fStack EXCEPT ![Len(fStack)] =
                    [FetchTop EXCEPT !.blocks = ChildBlocks(FetchTop.blockId),
                                     !.pc = IF Descends(FetchTop.depth)
                                                THEN "loop" ELSE "return"]]
    /\ fCalls' = Append(fCalls, FetchTop.blockId)
    /\ UNCHANGED <<fPc, fTree, fDepth, fResult>>

\* getBlockChildren fails after the invoker's retries: every call rejects
FetchListFails ==
    /\ FetchAt("list")
    /\ fCalls' = Append(fCalls, FetchTop.blockId)
    /\ fStack' = <<>>
    /\ fPc' = "failed"
    /\ UNCHANGED <<fTree, fDepth, fResult>>

\* lines 433-436: one turn of the loop `for (const block of blocks)`; the
\* array iterator reads the length of blocks at every turn, so the blocks
\* pushed at line 436 are visited too
FetchLoop ==
    /\ FetchAt("loop")
    /\ IF FetchTop.idx >= Len(FetchTop.blocks)
          THEN fStack' = [fStack EXCEPT ![Len(fStack)] = [FetchTop EXCEPT !.pc = "return"]]
       ELSE IF FetchTop.blocks[FetchTop.idx + 1].has_children
          THEN fStack' = Append([fStack EXCEPT ![Len(fStack)] =
                                    [FetchTop EXCEPT !.pc = "children"]],
                                FetchFrame(FetchTop.blocks[FetchTop.idx + 1].id,
                                           FetchTop.depth - 1))
       ELSE fStack' = [fStack EXCEPT ![Len(fStack)] = [FetchTop EXCEPT !.idx = @ + 1]]
    /\ UNCHANGED <<fPc, fTree, fDepth, fResult, fCalls>>

\* line 441 and lines 435-436: a call returns its blocks; the caller pushes
\* them onto its own, or the outermost caller has the result
FetchReturn ==
    /\ FetchAt("return")
    /\ IF Len(fStack) = 1
          THEN /\ fResult' = FetchTop.blocks
               /\ fStack' = <<>>
               /\ fPc' = "done"
          ELSE LET caller == fStack[Len(fStack) - 1] IN
               /\ fStack' = [SubSeq(fStack, 1, Len(fStack) - 1) EXCEPT ![Len(fStack) - 1] =
                                [caller EXCEPT !.blocks = @ \o FetchTop.blocks,
                                               !.idx = @ + 1,
                                               !.pc = "loop"]]
               /\ UNCHANGED <<fResult, fPc>>
    /\ UNCHANGED <<fTree, fDepth, fCalls>>

FetchNext ==
    \/ FetchListed /\ UNCHANGED <<retryVars, delayVars, drainVars, batchVars, copyVars, streamVars, moveVars, clientVars>>
    \/ FetchListFails /\ UNCHANGED <<retryVars, delayVars, drainVars, batchVars, copyVars, streamVars, moveVars, clientVars>>
    \/ FetchLoop /\ UNCHANGED <<retryVars, delayVars, drainVars, batchVars, copyVars, streamVars, moveVars, clientVars>>
    \/ FetchReturn /\ UNCHANGED <<retryVars, delayVars, drainVars, batchVars, copyVars, streamVars, moveVars, clientVars>>

InitFetch == FetchInit /\ RetryIdle /\ DelayIdle /\ DrainIdle /\ BatchIdle /\ CopyIdle /\ StreamIdle /\ MoveIdle /\ ClientIdle

SpecFetch == InitFetch /\ [][FetchNext]_vars

---------------------------------------------------------------------------
(* streamBlockChildren (commands/block.ts) and streamAllComments           *)
(* (commands/comment.ts).  The steps are the listing call and what follows *)
(* its answer up to the next call.                                         *)

RequestEvent(cursor) == [ev |-> "request", cursor |-> cursor, id |-> 0]
EmitEvent(item) == [ev |-> "emit", cursor |-> 0, id |-> item.id]

Reverse(seq) == [k \in 1 .. Len(seq) |-> seq[Len(seq) + 1 - k]]

\* the lines of a page written last item first
EmittedReversed(fn, response) ==
    Reverse(IF fn = "streamBlockChildren"
                THEN FilterBlockResults(response.results)
                ELSE response.results)

\* the items outputLine is called with, in the order of the calls:
\* blockResults (block.ts:316-322), response.results (streamAllComments)
Emitted(fn, response) ==
    IF fn = "streamBlockChildren"
        THEN FilterBlockResults(response.results)
        ELSE response.results

StreamInit ==
    /\ sPc = "request"
    /\ sFn \in {"streamBlockChildren", "streamAllComments"}
    /\ sItems \in ItemLists
    /\ sPageSize \in 1 .. MaxPageSize
    /\ sCursor = 0
    /\ sPage = <<>>
    /\ sLog = <<>>

\* the listing call is issued
StreamRequest ==
    /\ sPc = "request"
    /\ sPc' = "await"
    /\ sLog' = Append(sLog, RequestEvent(sCursor))
    /\ UNCHANGED <<sFn, sItems, sPageSize, sCursor, sPage>>

\* the call answers: the page's items are written out, the cursor is set
StreamPage ==
    /\ sPc = "await"
    /\ LET response == ListResponse(sItems, sPageSize, sCursor)
           lines == Emitted(sFn, response)
       IN /\ sPage' = response.results
          /\ sLog' = sLog \o [k \in 1 .. Len(lines) |-> EmitEvent(lines[k])]
          /\ sCursor' = NextCursor(response)
          /\ sPc' = IF NextCursor(response) # 0 THEN "request" ELSE "done"
    /\ UNCHANGED <<sFn, sItems, sPageSize>>

\* the call fails after the invoker's retries: the stream rejects
StreamPageFails ==
    /\ sPc = "await"
    /\ sPc' = "failed"
    /\ UNCHANGED <<sFn, sItems, sPageSize, sCursor, sPage, sLog>>

StreamNext ==
    \/ StreamRequest /\ UNCHANGED <<retryVars, delayVars, drainVars, batchVars, copyVars, fetchVars, moveVars, clientVars>>
    \/ StreamPage /\ UNCHANGED <<retryVars, delayVars, drainVars, batchVars, copyVars, fetchVars, moveVars, clientVars>>
    \/ StreamPageFails /\ UNCHANGED <<retryVars, delayVars, drainVars, batchVars, copyVars, fetchVars, moveVars, clientVars>>

InitStream == StreamInit /\ RetryIdle /\ DelayIdle /\ DrainIdle /\ BatchIdle /\ CopyIdle /\ FetchIdle /\ MoveIdle /\ ClientIdle

SpecStream == InitStream /\ [][StreamNext]_vars

---------------------------------------------------------------------------
(* getClient and resetClient (client.ts) over the module's clientInstance. *)
(* A step is one call.  A client is the object `new Client` made: its      *)
(* identity (the rank of its construction) and the key it was given.       *)

\* the apiKey argument ("": not given) and the key of the configuration
\* that getApiKey reads ("": none stored)
ApiKeys == {"", "secret_a", "secret_b"}
StoredKeys == {"", "secret_cfg"}

\* line 237: apiKey || getApiKey(configPath)
ResolvedKey(apiKey, stored) == IF apiKey # "" THEN apiKey ELSE stored

\* new Client({ auth: key, ... })
NewClient(n, key) == [id |-> n, auth |-> key]

GetEvent(key, result, thrown, built) ==
    [op |-> "get", key |-> key, result |-> result, thrown |-> thrown,
     built |-> built]
ResetEvent ==
    [op |-> "reset", key |-> "", result |-> NoClient, thrown |-> "",
     built |-> FALSE]

ClientInit ==
    /\ clientInstance = NoClient
    /\ gConstructed = 0
    /\ gLog = <<>>

\* a getClient that looks at the cache before it looks at the key
GetClientCacheFirst(apiKey, stored) ==
    /\ Len(gLog) < MaxClientCalls
    /\ LET key == ResolvedKey(apiKey, stored) IN
       IF clientInstance # NoClient
          THEN /\ gLog' = Append(gLog, GetEvent(key, clientInstance, "", FALSE))
               /\ UNCHANGED <<clientInstance, gConstructed>>
       ELSE IF requireAuth(key) # NoThrown
          THEN /\ gLog' = Append(gLog, GetEvent(key, NoClient, requireAuth(key).code, FALSE))
               /\ UNCHANGED <<clientInstance, gConstructed>>
       ELSE /\ clientInstance' = NewClient(gConstructed + 1, key)
            /\ gConstructed' = gConstructed + 1
            /\ gLog' = Append(gLog, GetEvent(key, clientInstance', "", TRUE))

\* getClient(apiKey, configPath): lines 236-250
GetClient(apiKey, stored) ==
    /\ Len(gLog) < MaxClientCalls
    /\ LET key == ResolvedKey(apiKey, stored) IN
       IF requireAuth(key) # NoThrown
          THEN /\ gLog' = Append(gLog, GetEvent(key, NoClient, requireAuth(key).code, FALSE))
               /\ UNCHANGED <<clientInstance, gConstructed>>
       ELSE IF clientInstance # NoClient
          THEN /\ gLog' = Append(gLog, GetEvent(key, clientInstance, "", FALSE))
               /\ UNCHANGED <<clientInstance, gConstructed>>
       ELSE /\ clientInstance' = NewClient(gConstructed + 1, key)
            /\ gConstructed' = gConstructed + 1
            /\ gLog' = Append(gLog, GetEvent(key, clientInstance', "", TRUE))

\* resetClient(): lines 252-254
ResetClient ==
    /\ Len(gLog) < MaxClientCalls
    /\ clientInstance' = NoClient
    /\ gLog' = Append(gLog, ResetEvent)
    /\ UNCHANGED gConstructed

ClientNext ==
    \/ (\E apiKey \in ApiKeys, stored \in StoredKeys : GetClient(apiKey, stored))
            /\ UNCHANGED <<retryVars, delayVars, drainVars, batchVars, copyVars, fetchVars, streamVars, moveVars>>
    \/ ResetClient
            /\ UNCHANGED <<retryVars, delayVars, drainVars, batchVars, copyVars, fetchVars, streamVars, moveVars>>

InitClient == ClientInit /\ RetryIdle /\ DelayIdle /\ DrainIdle /\ BatchIdle /\ CopyIdle /\ FetchIdle /\ StreamIdle /\ MoveIdle

SpecClient == InitClient /\ [][ClientNext]_vars

---------------------------------------------------------------------------
(* movePage (client.ts).  Each attempt is one run of withNotionRetry over  *)
(* the invoker's variables, with the default policy; movePage's own steps  *)
(* are the call of getClient and what follows the end of an attempt.       *)

\* what pages.update can throw for a parent given as a page or as a database
MoveOperations ==
    { { NotionError("validation_error", 400, NoHeaders, Undef) },
      { RateLimitedHeader("0"),
        NotionError("validation_error", 400, NoHeaders, Undef) },
      { NotionError("object_not_found", 404, NoHeaders, Undef) },
      { NotionError("validation_error", 500, NoHeaders, Undef) },
      { OtherError("validation_error", 400, NoHeaders, Undef) } }

\* a catch block that tries the database for every failure
isAnyError(error) == TRUE

\* line 446: error instanceof OverNotionError &&
\* error.code === APIErrorCode.ValidationError
isValidationError(error) ==
    error.name = "OverNotionError" /\ error.code = "validation_error"

\* lines 428-442: attempt(parentType) calls withNotionRetry
attempt(parentType) ==
    /\ mAttempts' = Append(mAttempts, parentType)
    /\ rPc' = "attempt"
    /\ rOptions' = resolvedOptions([k \in DOMAIN DEFAULT_RETRY_OPTIONS |-> -1])
    /\ retryCount' = 0
    /\ rLog' = <<>>
    /\ rFailures' = <<>>
    /\ rThrown' = NoThrown
    /\ rFn' \in MoveOperations

MoveInit ==
    /\ mPc = "start"
    /\ mKey \in {"", "secret_a"}
    /\ mAttempts = <<>>
    /\ mErrors = <<>>
    /\ mThrown = NoThrown

\* lines 426 and 444-445: getClient, then the first attempt is started
MoveStart ==
    /\ mPc = "start"
    /\ IF requireAuth(mKey) # NoThrown
          THEN /\ mPc' = "threw"
               /\ mThrown' = requireAuth(mKey)
               /\ UNCHANGED <<mAttempts, mErrors, retryVars>>
          ELSE /\ mPc' = "first"
               /\ attempt("page_id")
               /\ UNCHANGED <<mErrors, mThrown>>
    /\ UNCHANGED mKey

\* the running attempt's withNotionRetry takes a step
MoveAttemptStep ==
    /\ mPc \in {"first", "second"}
    /\ RetryNext

\* lines 445 and 447: the attempt resolves and movePage returns its value
MoveReturns ==
    /\ mPc \in {"first", "second"}
    /\ rPc = "returned"
    /\ mPc' = "returned"
    /\ UNCHANGED <<mKey, mAttempts, mErrors, mThrown, retryVars>>

\* lines 446-450: the first attempt threw
MoveCatch ==
    /\ mPc = "first"
    /\ rPc = "threw"
    /\ mErrors' = Append(mErrors, rThrown)
    /\ IF isValidationError(rThrown)
          THEN /\ mPc' = "second"
               /\ attempt("database_id")
               /\ UNCHANGED mThrown
          ELSE /\ mPc' = "threw"
               /\ mThrown' = rThrown
               /\ UNCHANGED <<mAttempts, retryVars>>
    /\ UNCHANGED mKey

\* line 447: the second attempt threw, outside the try block
MoveSecondThrows ==
    /\ mPc = "second"
    /\ rPc = "threw"
    /\ mErrors' = Append(mErrors, rThrown)
    /\ mPc' = "threw"
    /\ mThrown' = rThrown
    /\ UNCHANGED <<mKey, mAttempts, retryVars>>

MoveNext ==
    \/ MoveStart /\ UNCHANGED <<delayVars, drainVars, batchVars, copyVars, fetchVars, streamVars, clientVars>>
    \/ MoveAttemptStep
    \/ MoveReturns /\ UNCHANGED <<delayVars, drainVars, batchVars, copyVars, fetchVars, streamVars, clientVars>>
    \/ MoveCatch /\ UNCHANGED <<delayVars, drainVars, batchVars, copyVars, fetchVars, streamVars, clientVars>>
    \/ MoveSecondThrows /\ UNCHANGED <<delayVars, drainVars, batchVars, copyVars, fetchVars, streamVars, clientVars>>

InitMove == MoveInit /\ RetryIdle /\ DelayIdle /\ DrainIdle /\ BatchIdle /\ CopyIdle /\ FetchIdle /\ StreamIdle /\ ClientIdle

SpecMove == InitMove /\ [][MoveNext]_vars

---------------------------------------------------------------------------
(* Properties of the resilient invoker.                                    *)

RECURSIVE CountEvents(_, _)
CountEvents(log, ev) ==
    IF log = <<>> THEN 0
    ELSE (IF Head(log).ev = ev THEN 1 ELSE 0) + CountEvents(Tail(log), ev)

RECURSIVE SumWaits(_)
SumWaits(log) == IF log = <<>> THEN 0 ELSE Head(log).ms + SumWaits(Tail(log))

Calls == CountEvents(rLog, "call")
Waits == CountEvents(rLog, "wait")
LastFailure == rFailures[Len(rFailures)]

\* the classes of failure the specification calls retryable
IndicatesRateLimit(e) == e.notion /\ (e.code = "rate_limited" \/ e.status = 429)
IndicatesServerError(e) ==
    e.notion /\ (e.code \in {"internal_server_error", "service_unavailable"}
                    \/ e.status >= 500)
IndicatesTransportFault(e) ==
    e.notion /\ e.code \in {"notionhq_client_request_timeout",
                               "notionhq_client_response_error"}
RetryableClass(e) ==
    IndicatesRateLimit(e) \/ IndicatesServerError(e) \/ IndicatesTransportFault(e)

\* C2: a failure is retried if and only if it indicates rate limiting, a
\* server error of the 5xx class or a transport fault (and budget remains);
\* any other failure is thrown at once: it is the last event of the call,
\* no wait and no further invocation follows it.
RetriedIffRetryableClass ==
    \A i \in 1 .. Len(rFailures) :
        LET e == rFailures[i]
            retried == i < Len(rFailures) \/ rPc # "threw"
        IN /\ ~RetryableClass(e) =>
                /\ ~retried
                /\ Calls = i
                /\ rLog[Len(rLog)] = CallEvent
           /\ (RetryableClass(e) /\ i <= rOptions.maxRetries) => retried

\* a fatal failure after a retried one is thrown although budget remains
FatalThrownWithBudgetLeft ==
    /\ rPc = "threw"
    /\ Len(rFailures) >= 2
    /\ retryCount < rOptions.maxRetries
    /\ RetryableClass(rFailures[1])
    /\ ~RetryableClass(LastFailure)

\* C3: with maxRetries = M one call invokes the operation at most M+1 times
\* and waits at most M times; when every attempt fails retryably it invokes
\* it exactly M+1 times; every wait is followed by another attempt, so there
\* is no wait after the final failing attempt.
RetryBudgetRespected ==
    LET M == rOptions.maxRetries IN
    /\ Calls <= M + 1
    /\ Waits <= M
    /\ (rPc = "threw" /\ \A i \in 1 .. Len(rFailures) : RetryableClass(rFailures[i]))
            => Calls = M + 1
    /\ rPc \in {"threw", "returned"} => rLog[Len(rLog)] = CallEvent
    /\ \A p \in 1 .. Len(rLog) - 1 : rLog[p].ev = "wait" => rLog[p + 1] = CallEvent
    /\ rPc = "waiting" => (rLog[Len(rLog)].ev = "wait" /\ Calls <= M)

\* the default budget is used up: 5 invocations, 4 waits
DefaultBudgetExhausted ==
    /\ rPc = "threw"
    /\ rOptions = DEFAULT_RETRY_OPTIONS
    /\ Calls = 5
    /\ Waits = 4
    /\ RetryableClass(LastFailure)

HintSeconds == { 0, 1, 2, 30 }

DecimalString(h) ==
    CASE h = 0 -> "0" [] h = 1 -> "1" [] h = 30 -> "30" [] OTHER -> "<none>"

\* a rate-limit failure whose retry-after hint is h seconds
RateLimitedWithHint(e, h) ==
    /\ e.notion
    /\ e.code = "rate_limited"
    /\ \/ e.headers.kind = "get" /\ e.headers.lower = DecimalString(h)
       \/ e.headers.kind = "none" /\ e.retry_after = Num(h)

\* C4: an operation that fails k times with a rate-limit failure carrying a
\* retry-after hint of h seconds and then succeeds returns after exactly k+1
\* attempts, and the waits sum to at least k*h seconds.
RateLimitScriptHonoured ==
    rPc = "returned" =>
        \A h \in HintSeconds :
            (\A i \in 1 .. Len(rFailures) : RateLimitedWithHint(rFailures[i], h))
                => /\ Calls = Len(rFailures) + 1
                   /\ SumWaits(rLog) >= Len(rFailures) * h * 1000

\* three rate-limit failures with a hint of 1 s, then success
ThreeRateLimitsThenSuccess ==
    /\ rPc = "returned"
    /\ Len(rFailures) = 3
    /\ \A i \in 1 .. 3 : RateLimitedWithHint(rFailures[i], 1)
    /\ Calls = 4
    /\ SumWaits(rLog) >= 3000

DelayWithinBounds ==
    dPc = "delayed" =>
        IF dHint # Undef
            THEN /\ dDelay >= dHint.v
                 /\ dDelay <= dHint.v + dOptions.retryAfterJitterMs
            ELSE /\ dDelay >= 0
                 /\ dDelay <= dOptions.baseDelayMs * Pow2(dRetryCount - 1)
                 /\ dDelay <= dOptions.maxDelayMs

\* a hint above maxDelayMs is kept
HintAboveCapKept ==
    /\ dPc = "delayed"
    /\ dHint # Undef
    /\ dOptions = DEFAULT_RETRY_OPTIONS
    /\ dDelay > dOptions.maxDelayMs

UsableBodyHint(e) ==
    e.retry_after.t = "number" /\ e.retry_after.fin /\ e.retry_after.v >= 0

UsableHeaderHint(e) ==
    LET headerValue == HeaderValue(e.headers) IN
    /\ headerValue \notin {"<undefined>", ""}
    /\ ParseFloat(headerValue).fin \/ DateParse(headerValue).fin

\* C7: a failure (a Notion client error) that carries a usable body
\* retry_after value always yields a hint, and the hint is the body value
\* unless a usable header value overrides it.
BodyHintAlwaysYieldsHint ==
    (dPc \in {"hinted", "delayed"} /\ dError.notion /\ UsableBodyHint(dError)) =>
        /\ dHint # Undef
        /\ ~UsableHeaderHint(dError) => dHint.v = dError.retry_after.v * 1000

\* the message the table or the generic text gives for the code
TableOrGeneric(code) ==
    IF code \in ErrorMessageCodes
        THEN [generic |-> FALSE, text |-> errorMessages[code], code |-> code]
        ELSE [generic |-> TRUE, text |-> "Notion API error: ", code |-> code]

\* C19: getUserFriendlyMessage gives the table's message for every code of
\* the table (so for unauthorized, object_not_found and rate_limited) and
\* the generic message embedding the code for every other; an
\* OverNotionError thrown by withNotionRetry or withNotionError carries
\* the code of the failure it wraps, that code's message and the failure.
FriendlyMessageCarried ==
    /\ \A code \in WrapCodes : getUserFriendlyMessage(code) = TableOrGeneric(code)
    /\ getUserFriendlyMessage("unauthorized").text
            = "Invalid API token. Run 'onotion auth login' to set a valid token."
    /\ getUserFriendlyMessage("object_not_found").text
            = "The requested page, database, or block was not found. Verify the ID is correct and the integration has access."
    /\ getUserFriendlyMessage("rate_limited").text
            = "Rate limited by Notion API. Please wait a moment and try again."
    /\ (rPc \in {"threw", "rejected"} /\ rThrown.name = "OverNotionError") =>
            /\ rThrown.code = rFailures[Len(rFailures)].code
            /\ rThrown.message = TableOrGeneric(rFailures[Len(rFailures)].code)
            /\ rThrown.originalError = rFailures[Len(rFailures)]

\* withNotionError has wrapped a failure whose code is not in the table
UnknownCodeWrapped ==
    /\ rPc = "rejected"
    /\ rThrown.name = "OverNotionError"
    /\ rThrown.code = "UNKNOWN_CODE"
    /\ rThrown.message.generic
    /\ rThrown.message.code = "UNKNOWN_CODE"

---------------------------------------------------------------------------
(* Properties of the drains.                                               *)

\* C8 as stated: a drain returns the concatenation of all pages' items,
\* each item exactly once and in listing order, whatever the page size.
DrainReturnsEveryItem ==
    lPc = "done" => lBlocks = lItems

\* C8 amended: a drain returns, whatever the page size, the items of the
\* listing that are full blocks (that have a type), each exactly once and
\* in listing order; partial items are left out.  Every page is requested
\* once.
DrainReturnsEveryFullBlock ==
    /\ lPc = "done" =>
          /\ lBlocks = SelectSeq(lItems, LAMBDA r : r.full)
          /\ Len(lRequests) = Max(1, (Len(lItems) + lPageSize - 1) \div lPageSize)
    /\ \A p, q \in 1 .. Len(lRequests) : lRequests[p] = lRequests[q] => p = q
    /\ \A p, q \in 1 .. Len(lBlocks) : lBlocks[p].id = lBlocks[q].id => p = q

\* a listing of several one-item pages, one of them a partial block
DrainedSeveralPages ==
    /\ lPc = "done"
    /\ lPageSize = 1
    /\ Len(lRequests) >= 3
    /\ Len(lBlocks) >= 2
    /\ Len(lBlocks) < Len(lItems)

---------------------------------------------------------------------------
(* Properties of the batched mutator.                                      *)

RECURSIVE IssuedBatches(_)
IssuedBatches(log) ==
    IF log = <<>> THEN <<>>
    ELSE (IF Head(log).ev = "issue" THEN <<Head(log).batch>> ELSE <<>>)
            \o IssuedBatches(Tail(log))

RECURSIVE Concat(_)
Concat(seqs) == IF seqs = <<>> THEN <<>> ELSE Head(seqs) \o Concat(Tail(seqs))

CeilDiv(n, b) == (n + b - 1) \div b

\* C9: with N children and batch size B the function issues exactly
\* ceil(N/B) append calls, every call carries at most B children, the
\* calls' children concatenated in call order are the original list, and it
\* returns one response per call in call order.
BatchPlanHonoured ==
    LET issued == IssuedBatches(bLog) IN
    /\ \A k \in 1 .. Len(issued) : Len(issued[k]) \in 1 .. batchSize
    /\ Len(issued) <= CeilDiv(Len(bChildren), batchSize)
    /\ Concat(issued) = SubSeq(bChildren, 1, Len(Concat(issued)))
    /\ bPc = "done" =>
          /\ Len(issued) = CeilDiv(Len(bChildren), batchSize)
          /\ Concat(issued) = bChildren
          /\ bResponses = issued
          /\ bRemote = bChildren

\* several batches, the last one short
ShortLastBatchSent ==
    /\ bPc = "done"
    /\ Len(bChildren) % batchSize # 0
    /\ Len(bResponses) >= 3

\* C10: never two append calls outstanding; a chunk is issued only after
\* the chunk before it was answered; with delayMs > 0 the function waits
\* delayMs after every answered chunk except the last, and it never waits
\* after the final chunk.
ChunksStrictlySequential ==
    LET total == CeilDiv(Len(bChildren), batchSize)
        issuedUpTo(p) == Len(IssuedBatches(SubSeq(bLog, 1, p)))
    IN
    /\ Cardinality(bInFlight) <= 1
    /\ bPc = "outstanding" <=> bInFlight # {}
    /\ \A p \in 1 .. Len(bLog) :
          /\ (bLog[p].ev = "issue" /\ p > 1) => bLog[p - 1].ev \in {"response", "wait"}
          /\ bLog[p].ev = "response" =>
                /\ bLog[p - 1].ev = "issue"
                /\ bLog[p - 1].batch = bLog[p].batch
                /\ (delayMs > 0 /\ issuedUpTo(p) < total) =>
                        (p < Len(bLog) /\ bLog[p + 1] = DelayEvent(delayMs))
          /\ bLog[p].ev = "wait" =>
                /\ bLog[p - 1].ev = "response"
                /\ delayMs > 0
                /\ bLog[p].ms = delayMs
                /\ issuedUpTo(p) < total
    /\ (bPc = "done" /\ bLog # <<>>) => bLog[Len(bLog)].ev = "response"

\* three chunks with a wait after the first and the second only
WaitedBetweenChunks ==
    /\ bPc = "done"
    /\ delayMs > 0
    /\ Len(bResponses) = 3
    /\ CountEvents(bLog, "wait") = 2

\* C24: when the chunk at index i has failed, the function has thrown: the
\* issue of that chunk is the last event (no later chunk, no wait), no call
\* is outstanding, and the children before i are appended, chunk by chunk,
\* as the answered calls left them.
ChunkFailurePropagates ==
    bPc = "failed" =>
        /\ bLog # <<>>
        /\ bLog[Len(bLog)] = IssueEvent(BatchOf(bChildren, bI, batchSize))
        /\ Len(IssuedBatches(bLog)) * batchSize = bI + batchSize
        /\ Concat(IssuedBatches(bLog)) = Slice(bChildren, 0, bI + batchSize)
        /\ bInFlight = {}
        /\ bRemote = SubSeq(bChildren, 1, bI)
        /\ Len(bResponses) * batchSize = bI
        /\ Concat(bResponses) = SubSeq(bChildren, 1, bI)

\* a chunk in the middle has failed after a wait, chunks before and after it
MiddleChunkFailed ==
    /\ bPc = "failed"
    /\ delayMs > 0
    /\ bI > 0
    /\ bI + batchSize < Len(bChildren)
    /\ Len(bRemote) = bI

---------------------------------------------------------------------------
(* Properties of the replicator.                                           *)

\* the types a copy keeps: those the normalizer copies, the two containers
\* and the synced block; every other type is degraded to a placeholder
KeptTypes == CopiedTypes \cup {"column_list", "table", "synced_block"}

\* the created block t stands for the source block s
Corresponds(s, t) ==
    IF s.type \in KeptTypes
        THEN /\ t.type = s.type
             /\ s.type \in CopiedTypes => t.text = s.text
        ELSE /\ t.type = "paragraph"
             /\ t.text = [msg |-> "Unsupported block type: ", arg |-> s.type, n |-> 0]

\* C1: when all remote calls succeed, every copyBlockTree(S, P) leaves
\* exactly as many children under P as S has, and the i-th child under P
\* stands for the i-th child of S (same type and text, or its placeholder).
CopyMirrorsChildren ==
    cPc = "done" =>
        \A c \in cCopies :
            LET sourceKids == NodeAt(cSource, c.src).kids
                targetKids == cStore[c.tgt].kids
            IN /\ Len(targetKids) = Len(sourceKids)
               /\ \A k \in 1 .. Len(sourceKids) :
                    Corresponds(sourceKids[k], cStore[targetKids[k]])

\* a page of more than one batch of children, a column list among them
LongMixedPageCopied ==
    /\ cPc = "done"
    /\ Len(cSource.kids) > copyBatchSize
    /\ \E k \in 1 .. Len(cSource.kids) : cSource.kids[k].type = "column_list"
    /\ Len(cStore[1].kids) = Len(cSource.kids)
    /\ Cardinality(cCopies) >= 3

\* the call creates one column list
ColumnListCall(req) ==
    /\ req.op = "append"
    /\ Len(req.children) = 1
    /\ req.children[1].type = "column_list"

\* the source children, of every copyBlockTree of the job, of the given type
CopiedOfType(type) ==
    UNION { { c.src \o <<k>> : k \in { x \in 1 .. Len(NodeAt(cSource, c.src).kids) :
                                        NodeAt(cSource, c.src).kids[x].type = type } } :
            c \in cCopies }

\* the columns a column list of k source columns is created with
ColumnsFor(k) == IF k = 0 THEN 2 ELSE k

\* C11: the call that replicates a column list of k source columns creates,
\* under the target parent, one column list of exactly k columns, all of
\* them empty, whatever the source columns hold (2 columns when the source
\* lists none); a finished job has made one such call per column list.
ColumnListCreatedWithSourceCount ==
    /\ ( /\ cPc = "running"
         /\ cStack # <<>>
         /\ Top.fn = "copyBlockTree"
         /\ Top.cont = "columnListCreated"
         /\ Top.pc \in {"await", "columnListCreated"} ) =>
            LET want == ColumnsFor(Len(NodeAt(cSource, Top.children[Top.k].id).kids))
                req == cCalls[Len(cCalls)]
                kids == cStore[Top.tgt].kids
            IN /\ ColumnListCall(req)
               /\ req.tgt_id = Top.tgt
               /\ Len(req.children[1].children) = want
               /\ \A c \in 1 .. want :
                    /\ req.children[1].children[c].type = "column"
                    /\ req.children[1].children[c].children = <<>>
               /\ Top.pc = "columnListCreated" =>
                    /\ kids # <<>>
                    /\ cStore[kids[Len(kids)]].type = "column_list"
                    /\ Len(cStore[kids[Len(kids)]].kids) = want
                    /\ \A c \in 1 .. want :
                        /\ cStore[cStore[kids[Len(kids)]].kids[c]].type = "column"
                        /\ cStore[cStore[kids[Len(kids)]].kids[c]].kids = <<>>
    /\ cPc = "done" =>
            Cardinality({ n \in 1 .. Len(cCalls) : ColumnListCall(cCalls[n]) })
                = Cardinality(CopiedOfType("column_list"))

\* a column list of three source columns, the second one with content, has
\* just been created
ThreeColumnListCreated ==
    /\ At("copyBlockTree", "columnListCreated")
    /\ Len(NodeAt(cSource, Top.children[Top.k].id).kids) = 3
    /\ NodeAt(cSource, Top.children[Top.k].id).kids[2].kids # <<>>
    /\ Len(cStore[cStore[Top.tgt].kids[Len(cStore[Top.tgt].kids)]].kids) = 3

\* the children of the created block t stand, in order, for the children of
\* the source block s
KidsCorrespond(s, t) ==
    /\ Len(t.kids) = Len(s.kids)
    /\ \A k \in 1 .. Len(s.kids) : Corresponds(s.kids[k], cStore[t.kids[k]])

\* C12: after a job, for every replicated column list and every position i
\* of a source column, the children of the i-th source column stand, in
\* order, under the i-th column of the new column list, which holds nothing
\* else; the source [A, column_list([B], [C]), D] gives paragraph A, a
\* 2-column list whose columns hold B and C, and paragraph D.
ColumnsPairedByPosition ==
    cPc = "done" =>
        /\ \A c \in cCopies :
             \A k \in 1 .. Len(NodeAt(cSource, c.src).kids) :
                LET s == NodeAt(cSource, c.src).kids[k]
                    t == cStore[cStore[c.tgt].kids[k]]
                IN s.type = "column_list" =>
                    /\ t.type = "column_list"
                    /\ Len(t.kids) = ColumnsFor(Len(s.kids))
                    /\ \A i \in 1 .. Len(s.kids) :
                        /\ cStore[t.kids[i]].type = "column"
                        /\ KidsCorrespond(s.kids[i], cStore[t.kids[i]])
        /\ cSource = ScenarioPage =>
                LET top == [k \in 1 .. 3 |-> cStore[cStore[1].kids[k]]]
                    col == [i \in 1 .. 2 |-> cStore[top[2].kids[i]]]
                IN /\ Len(cStore[1].kids) = 3
                   /\ top[1].type = "paragraph" /\ top[1].text = Text("A", 0)
                   /\ top[2].type = "column_list" /\ Len(top[2].kids) = 2
                   /\ Len(col[1].kids) = 1 /\ Len(col[2].kids) = 1
                   /\ cStore[col[1].kids[1]].text = Text("B", 0)
                   /\ cStore[col[2].kids[1]].text = Text("C", 0)
                   /\ top[3].type = "paragraph" /\ top[3].text = Text("D", 0)

\* the scenario page has been copied, its two columns filled
ScenarioColumnsFilled ==
    /\ cPc = "done"
    /\ cSource = ScenarioPage
    /\ Cardinality(cCopies) = 3
    /\ Len(cStore) = 8

\* the cells of a synthesized empty row of the given width
EmptyCells(w) == [c \in 1 .. w |-> <<>>]

\* C13: after a job, every replicated table of width w has the source's
\* width and header flags; it holds the source's r rows, cells unchanged,
\* in source order when r >= 1 (whatever the number of row batches), and
\* one empty row when r = 0.
TableRowsReplicated ==
    cPc = "done" =>
        \A c \in cCopies :
            \A k \in 1 .. Len(NodeAt(cSource, c.src).kids) :
                LET s == NodeAt(cSource, c.src).kids[k]
                    t == cStore[cStore[c.tgt].kids[k]]
                IN s.type = "table" =>
                    /\ t.type = "table"
                    /\ t.table = s.table
                    /\ IF Len(s.kids) >= 1
                        THEN /\ Len(t.kids) = Len(s.kids)
                             /\ \A r \in 1 .. Len(s.kids) :
                                    /\ cStore[t.kids[r]].type = "table_row"
                                    /\ cStore[t.kids[r]].cells = s.kids[r].cells
                        ELSE /\ Len(t.kids) = 1
                             /\ cStore[t.kids[1]].type = "table_row"
                             /\ cStore[t.kids[1]].cells = EmptyCells(s.table.table_width)

\* a table of more than 51 rows has been copied, its later rows in two calls
LongTableCopied ==
    /\ cPc = "done"
    /\ \E k \in 1 .. Len(cSource.kids) :
        /\ cSource.kids[k].type = "table"
        /\ Len(cSource.kids[k].kids) > rowBatchSize + 1
        /\ Len(cStore[cStore[1].kids[k]].kids) = Len(cSource.kids[k].kids)
    /\ Cardinality({ n \in 1 .. Len(cCalls) :
                        /\ cCalls[n].op = "append"
                        /\ cCalls[n].children[1].type = "table_row" }) = 2

\* the call appends rows to a table
RowsCall(req) ==
    /\ req.op = "append"
    /\ \E b \in 1 .. Len(req.children) : req.children[b].type = "table_row"

\* C14: every row sent has as many cells as the table_width sent for its
\* table: the row embedded in a table creation (taken from the source or
\* synthesized), and every row of a later call, which holds rows only, at
\* most 50 of them, and goes to the identifier of a created table.
RowsCarryTableWidth ==
    \A n \in 1 .. Len(cCalls) :
        LET req == cCalls[n] IN
        /\ req.op = "append" =>
            \A b \in 1 .. Len(req.children) :
                req.children[b].type = "table" =>
                    /\ Len(req.children[b].children) = 1
                    /\ \A r \in 1 .. Len(req.children[b].children) :
                        /\ req.children[b].children[r].type = "table_row"
                        /\ Len(req.children[b].children[r].cells)
                            = req.children[b].table.table_width
        /\ RowsCall(req) =>
            /\ Len(req.children) <= rowBatchSize
            /\ req.tgt_id \in 1 .. Len(cStore)
            /\ cStore[req.tgt_id].type = "table"
            /\ \A b \in 1 .. Len(req.children) :
                /\ req.children[b].type = "table_row"
                /\ Len(req.children[b].cells) = cStore[req.tgt_id].table.table_width

\* a synthesized row, an embedded source row and a later batch of rows have
\* all been sent
EveryKindOfRowSent ==
    /\ \E n \in 1 .. Len(cCalls) :
        /\ cCalls[n].op = "append"
        /\ cCalls[n].children[1].type = "table"
        /\ cCalls[n].children[1].table.table_width = 3
        /\ cCalls[n].children[1].children[1].cells = EmptyCells(3)
    /\ \E n \in 1 .. Len(cCalls) :
        /\ cCalls[n].op = "append"
        /\ cCalls[n].children[1].type = "table"
        /\ cCalls[n].children[1].children[1].cells = <<Cell("h1", 0), Cell("h2", 0)>>
    /\ \E n \in 1 .. Len(cCalls) : RowsCall(cCalls[n]) /\ Len(cCalls[n].children) = 2

\* the types blockToCreateRequest, copyBlockTree and copyTableContents know
RecognizedTypes == CopiedTypes \cup {"column_list", "column", "table", "table_row", "synced_block"}

\* a source block that cannot be recreated: an embedded child page or
\* database, a synced block that refers to a block elsewhere, an unknown type
Unrecreatable(b) ==
    \/ b.type \in {"child_page", "child_database"}
    \/ b.type = "synced_block" /\ b.synced_from # ""
    \/ b.type \notin RecognizedTypes

\* C15 as stated: in every call that creates a run of plain siblings, each
\* source block that cannot be recreated is sent as one placeholder
\* paragraph naming its type, and as nothing else.
UnrecreatableSentAsPlaceholder ==
    ( /\ cPc = "running"
      /\ cStack # <<>>
      /\ Top.fn = "copyBlockTree"
      /\ Top.pc = "await"
      /\ Top.cont = "flushed" ) =>
        LET req == cCalls[Len(cCalls)] IN
        /\ Len(req.children) = Len(Top.batch)
        /\ \A b \in 1 .. Len(Top.batch) :
            Unrecreatable(Top.batch[b]) =>
                req.children[b] = placeholderBlock(Top.batch[b].type)

\* the call creates one table
TableCall(req) ==
    /\ req.op = "append"
    /\ Len(req.children) = 1
    /\ req.children[1].type = "table"

ContainerCall(req) == ColumnListCall(req) \/ TableCall(req)

\* the source child that is next to be created under the target parent of
\* the call is a container of the type the call creates
NextToCreateIsContainer(req) ==
    \A c \in cCopies :
        c.tgt = req.tgt_id =>
            LET sourceKids == NodeAt(cSource, c.src).kids
                created == Len(cStore[c.tgt].kids)
            IN /\ created < Len(sourceKids)
               /\ sourceKids[created + 1].type = req.children[1].type

ContainersIn(store) ==
    { id \in 1 .. Len(store) : store[id].type \in {"column_list", "table"} }

\* C16: once the call that creates a column list or a table has failed, the
\* job has failed with it: no function of the job is running, no call was
\* issued after the failed one, the container does not exist, and under
\* its target parent stand only the siblings listed before it.
ContainerFailureAbortsJob ==
    (cFailure # <<>> /\ ContainerCall(cFailure[1])) =>
        /\ cPc = "failed"
        /\ cStack = <<>>
        /\ cInflight = <<>>
        /\ Len(cFailure) = 1
        /\ cCalls[Len(cCalls)] = cFailure[1]
        /\ NextToCreateIsContainer(cFailure[1])
        /\ Cardinality(ContainersIn(cStore)) + 1
            = Cardinality({ n \in 1 .. Len(cCalls) : ContainerCall(cCalls[n]) })

\* the creation of a table between two paragraphs has failed: the first
\* paragraph stands alone under the new page
TableCreationFailed ==
    /\ cPc = "failed"
    /\ TableCall(cFailure[1])
    /\ Len(cSource.kids) = 3
    /\ Len(cStore) = 2
    /\ cStore[1].kids = <<2>>

\* C20: under every target parent the created children stand at all times
\* for a prefix of the source children, so creation follows the listing
\* order; and while the creation call of a column list or table is
\* outstanding, every sibling listed before it has been created and none
\* listed after it.
SiblingsCreatedInListingOrder ==
    /\ \A c \in cCopies :
        LET sourceKids == NodeAt(cSource, c.src).kids
            targetKids == cStore[c.tgt].kids
        IN /\ Len(targetKids) <= Len(sourceKids)
           /\ \A k \in 1 .. Len(targetKids) :
                Corresponds(sourceKids[k], cStore[targetKids[k]])
    /\ (cInflight # <<>> /\ ContainerCall(Head(cInflight))) =>
            NextToCreateIsContainer(Head(cInflight))

\* the creation call of a container is outstanding, a flushed sibling before
\* it and a sibling after it
ContainerCallAfterFlush ==
    /\ cInflight # <<>>
    /\ ContainerCall(Head(cInflight))
    /\ Head(cInflight).tgt_id = 1
    /\ Len(cStore[1].kids) >= 1
    /\ Len(cSource.kids) > Len(cStore[1].kids) + 1

\* a source block that copyBlockTree puts on the pending run
Plain(b) == b.type \notin {"column_list", "table"}

\* C21: after a job, for every copyBlockTree(S, P) and every plain child of
\* S that reports nested content, copyBlockTree ran with that child as
\* source and the created block at the same position under P as target,
\* and that block's children stand for the child's children; and at all
\* times, no listing call was made for a plain source child without nested
\* content.
NestingFollowsPositions ==
    /\ cPc = "done" =>
        \A c \in cCopies :
            \A k \in 1 .. Len(NodeAt(cSource, c.src).kids) :
                LET s == NodeAt(cSource, c.src).kids[k] IN
                (Plain(s) /\ s.has_children) =>
                    /\ [src |-> c.src \o <<k>>, tgt |-> cStore[c.tgt].kids[k]] \in cCopies
                    /\ KidsCorrespond(s, cStore[cStore[c.tgt].kids[k]])
    /\ \A n \in 1 .. Len(cCalls) :
        (cCalls[n].op = "list" /\ cCalls[n].side = "source" /\ cCalls[n].src_id # <<>>) =>
            LET s == NodeAt(cSource, cCalls[n].src_id) IN
            (Plain(s) /\ s.type # "column") => s.has_children

\* a toggle with nested content, itself inside a column, has been copied
NestedToggleCopied ==
    /\ cPc = "done"
    /\ \E c \in cCopies :
        /\ Len(c.src) = 3
        /\ NodeAt(cSource, c.src).type = "toggle"
        /\ Len(cStore[c.tgt].kids) = 1

\* C22 as stated: replication never walks a batch against a response that
\* holds another number of created blocks: such a response fails the job.
ShortResponseFailsJob ==
    ( /\ cPc = "running"
      /\ cStack # <<>>
      /\ Top.fn = "copyBlockTree"
      /\ Top.pc = "walk" ) => Len(Top.targets) = Len(Top.batch)

\* the created block is a placeholder
IsPlaceholder(b) == b.type = "paragraph" /\ b.text.msg = "Unsupported block type: "

\* C29 as stated: a placeholder has no children, and the children of a
\* source block that is degraded to a placeholder are never listed.
PlaceholderStaysLeaf ==
    /\ \A id \in 1 .. Len(cStore) : IsPlaceholder(cStore[id]) => cStore[id].kids = <<>>
    /\ \A n \in 1 .. Len(cCalls) :
        (cCalls[n].op = "list" /\ cCalls[n].side = "source" /\ cCalls[n].src_id # <<>>) =>
            NodeAt(cSource, cCalls[n].src_id).type \in RecognizedTypes

\* C23: once a remote call of the job has failed, duplicatePage has
\* rejected, the failed call is the last call the job issued, and the step
\* of the failure and every later step leave the created blocks and the new
\* page as they are; the job only ever retrieves, creates, lists and
\* appends, it never deletes or archives.
JobStopsAtFirstFailure ==
    /\ [](cFailure # <<>> =>
            /\ cPc = "failed"
            /\ cStack = <<>>
            /\ cInflight = <<>>
            /\ Len(cFailure) = 1
            /\ cCalls[Len(cCalls)] = cFailure[1])
    /\ [](\A n \in 1 .. Len(cCalls) :
            cCalls[n].op \in {"retrieve", "create", "list", "append"})
    /\ [][cFailure' # <<>> => cStore' = cStore]_vars

\* a batch of rows has failed: the table and its first rows are still there
RowBatchFailedTableKept ==
    /\ cPc = "failed"
    /\ RowsCall(cFailure[1])
    /\ cStore[1].type = "page"
    /\ \E id \in 1 .. Len(cStore) :
        /\ cStore[id].type = "table"
        /\ Len(cStore[id].kids) > rowBatchSize

\* the target parents of the copyBlockTree calls that have not returned
RunningTargets ==
    { cStack[d].tgt : d \in { x \in 1 .. Len(cStack) : cStack[x].fn = "copyBlockTree" } }

\* C25: at most one remote call is outstanding, and the function that
\* issued it is the innermost one; while the job runs, every
\* copyBlockTree(S, P) that is not awaited any more has created all the
\* children of S under P, so a subtree is complete before anything else is
\* started.
OneCallAtATime ==
    /\ Len(cInflight) <= 1
    /\ cInflight # <<>> => (cStack # <<>> /\ Top.pc = "await")
    /\ cPc = "running" =>
        \A c \in cCopies :
            c.tgt \notin RunningTargets =>
                Len(cStore[c.tgt].kids) = Len(NodeAt(cSource, c.src).kids)

\* a call is outstanding for a later subtree while an earlier one is complete
LaterSubtreeAfterEarlier ==
    /\ cPc = "running"
    /\ Len(cInflight) = 1
    /\ Len(cStack) >= 3
    /\ \E c \in cCopies :
        /\ c.tgt \notin RunningTargets
        /\ Len(cStore[c.tgt].kids) >= 1

---------------------------------------------------------------------------
(* Properties of fetchAllBlocks.                                           *)

\* C17 as stated: the blocks fetchAllBlocks(blockId, depth) returns are
\* nested at most depth levels below blockId (level 1: its children).
FetchedWithinDepth ==
    fPc = "done" => \A k \in 1 .. Len(fResult) : Len(fResult[k].id) <= fDepth

\* the blocks of a tree, its root counted
RECURSIVE BlockCount(_), BlockCounts(_)
BlockCount(node) == 1 + BlockCounts(node.kids)
BlockCounts(kids) ==
    IF kids = <<>> THEN 0 ELSE BlockCount(Head(kids)) + BlockCounts(Tail(kids))

\* C28 as stated: the list fetchAllBlocks returns holds no block twice, and
\* the listing calls made are at most one per block of the tree and one for
\* the root.
FetchedOnceEach ==
    fPc = "done" =>
        /\ \A k, j \in 1 .. Len(fResult) : fResult[k].id = fResult[j].id => k = j
        /\ Len(fCalls) <= BlockCount(fTree)

---------------------------------------------------------------------------
(* Properties of the streaming listings.                                   *)

\* the items of the log's emit events, in order
EmittedIds ==
    LET emits == SelectSeq(sLog, LAMBDA e : e.ev = "emit") IN
    [k \in 1 .. Len(emits) |-> emits[k].id]

\* the ids of the items the function writes out among the first n items
WrittenIds(n) ==
    LET lines == IF sFn = "streamBlockChildren"
                    THEN FilterBlockResults(SubSeq(sItems, 1, n))
                    ELSE SubSeq(sItems, 1, n)
    IN [k \in 1 .. Len(lines) |-> lines[k].id]

\* the items the answered pages cover
Answered ==
    CASE sPc = "done" -> Len(sItems)
      [] sPc \in {"request", "await", "failed"} /\ sCursor # 0 -> sCursor - 1
      [] OTHER -> 0

---------------------------------------------------------------------------
(* Properties of movePage.                                                 *)

\* a failure of an attempt that is Notion's validation error
ValidationFailure(thrown) ==
    thrown.originalError.notion /\ thrown.code = "validation_error"

\* C26: the first attempt names the new parent as a page; a second attempt,
\* naming it as a database, exists exactly when the first attempt failed
\* with a validation error; every other failure of the first attempt and
\* every failure of the second one is what movePage throws; there are never
\* more than two attempts.
MoveTriesDatabaseOnlyAfterValidation ==
    /\ Len(mAttempts) <= 2
    /\ Len(mErrors) <= Len(mAttempts)
    /\ mAttempts # <<>> => mAttempts[1] = "page_id"
    /\ Len(mAttempts) = 2 =>
            /\ mAttempts[2] = "database_id"
            /\ mErrors # <<>>
            /\ ValidationFailure(mErrors[1])
    /\ (mErrors # <<>> /\ ValidationFailure(mErrors[1])) => Len(mAttempts) = 2
    /\ (mErrors # <<>> /\ ~ValidationFailure(mErrors[1])) =>
            /\ Len(mAttempts) = 1
            /\ mPc = "threw"
            /\ mThrown = mErrors[1]
    /\ Len(mErrors) = 2 =>
            /\ mPc = "threw"
            /\ mThrown = mErrors[2]
    /\ mPc = "returned" => Len(mErrors) = Len(mAttempts) - 1
    /\ (mPc = "threw" /\ mAttempts # <<>>) =>
            /\ Len(mErrors) = Len(mAttempts)
            /\ mThrown = mErrors[Len(mErrors)]

\* the attempt with a database parent was retried and failed for good
SecondAttemptFailed ==
    /\ mPc = "threw"
    /\ mAttempts = <<"page_id", "database_id">>
    /\ Len(rFailures) > 1
    /\ mThrown.code = "validation_error"

---------------------------------------------------------------------------
(* Properties of getClient and resetClient.                                *)

\* the place of the construction whose client is cached when call i is made
\* (0: none is cached)
CachedAt(i) ==
    LET before == { b \in 1 .. (i - 1) : gLog[b].built \/ gLog[b].op = "reset" } IN
    IF before = {} THEN 0
    ELSE LET last == CHOOSE b \in before : \A c \in before : c <= b IN
         IF gLog[last].built THEN last ELSE 0

\* C27: at most one client is constructed between two resets; a getClient
\* call with no key fails with NO_AUTH, cached client or not; with a key it
\* returns the cached client whatever the key, and when none is cached (at
\* the start, after a reset) it constructs a new client from its key.
ClientIsSingleton ==
    \A i \in 1 .. Len(gLog) :
        gLog[i].op = "get" =>
            IF gLog[i].key = ""
               THEN gLog[i].thrown = "NO_AUTH" /\ ~gLog[i].built
            ELSE IF CachedAt(i) # 0
               THEN /\ gLog[i].thrown = ""
                    /\ ~gLog[i].built
                    /\ gLog[i].result = gLog[CachedAt(i)].result
            ELSE /\ gLog[i].thrown = ""
                 /\ gLog[i].built
                 /\ gLog[i].result.auth = gLog[i].key
                 /\ \A j \in 1 .. (i - 1) : gLog[j].result # gLog[i].result

\* a client built from one key was returned for another key, refused to a
\* call without a key, reset, and a second client was built
CachedClientOutlivesItsKey ==
    /\ Len(gLog) = 5
    /\ gLog[1].built /\ gLog[1].key = "secret_a"
    /\ gLog[2].op = "get" /\ gLog[2].key = "secret_b" /\ gLog[2].result = gLog[1].result
    /\ gLog[3].thrown = "NO_AUTH"
    /\ gLog[4].op = "reset"
    /\ gLog[5].built /\ gLog[5].result.auth = "secret_b"
    /\ gLog[5].result # gLog[1].result

=============================================================================
